---------------------------- MODULE Spec2Model ----------------------------
(***************************************************************************)
(* Model of the paper-trading position ledger (src/paper_trading), of the  *)
(* strategy registry and signal evaluator (src/strategies/service.rs) and  *)
(* of the price hub (src/market/service.rs) of rust-trading, with the     *)
(* indicators SMA, EMA, RSI and MACD (src/strategies/indicators).          *)
(*                                                                         *)
(* Every `.await` on the persistence gateway or on the market service is   *)
(* one atomic step of the calling task; the synchronous code that follows  *)
(* an await up to the next await belongs to the same step.  f64 values are *)
(* exact rationals [n, d] (d > 0, lowest terms).  Timestamps are omitted.  *)
(*                                                                         *)
(* The engine part models an evaluation call step by step beside the       *)
(* strategy calls, the second StrategyService and MarketService the        *)
(* process builds (src/main.rs, src/api/router.rs), and the three RwLocks  *)
(* with the lock operations of each registry and hub operation.            *)
(***************************************************************************)
EXTENDS Integers, Sequences, FiniteSets, TLC

\* ------------------------------------------------------------------ bounds
\* Total number of requests (ledger calls, strategy calls) a behaviour starts.
MaxCalls == 2

\* ---------------------------------------------------------------- f64 values
RECURSIVE GCD(_, _)
GCD(a, b) == IF b = 0 THEN a ELSE GCD(b, a % b)

Abs(x) == IF x < 0 THEN -x ELSE x

RNorm(n, d) ==
    LET g == GCD(Abs(n), Abs(d))
        s == IF d < 0 THEN -1 ELSE 1
    IN  [n |-> (s * n) \div g, d |-> (s * d) \div g]

F(i) == [n |-> i, d |-> 1]

RAdd(x, y) == RNorm(x.n * y.d + y.n * x.d, x.d * y.d)

RSub(x, y) == RNorm(x.n * y.d - y.n * x.d, x.d * y.d)

RMul(x, y) == RNorm(x.n * y.n, x.d * y.d)

RDiv(x, y) == RNorm(x.n * y.d, x.d * y.n)

RLt(x, y) == x.n * y.d < y.n * x.d

RLe(x, y) == x.n * y.d <= y.n * x.d

RGe(x, y) == x.n * y.d >= y.n * x.d

RGt(x, y) == RLt(y, x)

\* ------------------------------------------------------------ Option<T>
None == << >>

Some(x) == << x >>

IsSome(o) == o # None

Unwrap(o) == o[1]

\* ------------------------------------------------------------ inputs
Users == {"u1", "u2"}

\* the owners that place orders
Traders == {"u1"}

Symbols == {"BTC-USDT", "ETH-USDT"}

Sides == {"Buy", "Sell"}

\* CreateOrderRequest.quantity values (validated >= 0.0001 by the handler)
Quantities == {F(1), F(2)}

\* prices the market service's get_ticker_price can return
Prices == {F(1), F(2)}

\* paper_balance_usd set by enable_paper_trading(initial_balance)
InitialBalances == {F(3)}

Tasks == {"t1", "t2"}


\* ------------------------------------------------------------ error values
Ok == [kind |-> "Ok", msg |-> ""]

NoResult == [kind |-> "None", msg |-> ""]

Panic == [kind |-> "Panic", msg |-> "called Option::unwrap() on a None value"]

InsufficientBalance ==
    [kind |-> "ValidationError", msg |-> "Insufficient balance for this order"]

InsufficientQuantity ==
    [kind |-> "ValidationError", msg |-> "Insufficient quantity to sell"]

NoPosition == [kind |-> "ValidationError", msg |-> "No position found for symbol"]

PositionIdRequired ==
    [kind |-> "ValidationError", msg |-> "Position ID is required for update"]

PositionIdNotFound == [kind |-> "ValidationError", msg |-> "Position ID not found"]

\* ------------------------------------------------------------ documents
PositionFields ==
    {"id", "user_id", "symbol", "quantity", "entry_price", "current_price",
     "unrealized_pnl", "realized_pnl", "side"}

OrderFields ==
    {"id", "user_id", "symbol", "order_type", "side", "quantity", "price",
     "status", "position_id"}

\* bson::to_document: one document field per struct field, under the name of
\* the struct field (Position and Order carry no serde rename), None written as null.
ToDocument(struct) == [k \in DOMAIN struct |-> struct[k]]

\* bson::from_document::<T>: the struct's fields are read by name; any other
\* field of the document (the _id the driver added) is ignored.
FromDocument(doc, fields) == [k \in fields |-> doc[k]]

\* insert_one: the server stores the document under a fresh _id.
InsertOne(coll, doc, oid) ==
    Append(coll, [k \in DOMAIN doc \cup {"_id"} |->
                     IF k = "_id" THEN oid ELSE doc[k]])

Matching(coll, Filter(_)) == {i \in 1..Len(coll) : Filter(coll[i])}

First(S) == CHOOSE i \in S : \A j \in S : i <= j

\* find_one: the first stored document the filter matches.
FindOne(coll, Filter(_)) ==
    LET m == Matching(coll, Filter)
    IN  IF m = {} THEN None ELSE Some(coll[First(m)])

\* replace_one({_id: oid}, doc): the first match keeps its _id and takes the fields of doc.
ReplaceOne(coll, oid, doc) ==
    LET m == Matching(coll, LAMBDA d : d["_id"] = oid)
    IN  IF m = {} THEN coll
        ELSE [coll EXCEPT ![First(m)] =
                 [k \in DOMAIN doc \cup {"_id"} |->
                     IF k = "_id" THEN oid ELSE doc[k]]]

\* delete_one({_id: oid})
DeleteOne(coll, oid) ==
    LET m == Matching(coll, LAMBDA d : d["_id"] = oid)
    IN  IF m = {} THEN coll
        ELSE SubSeq(coll, 1, First(m) - 1) \o SubSeq(coll, First(m) + 1, Len(coll))

Find(coll, Filter(_)) ==
    LET RECURSIVE Walk(_)
        Walk(i) == IF i > Len(coll) THEN << >>
                   ELSE (IF Filter(coll[i]) THEN << coll[i] >> ELSE << >>) \o Walk(i + 1)
    IN  Walk(1)

\* ------------------------------------------------------------ ledger: pure parts
\* the order left unfilled, with the request price missing
NewOrder_Pending(rq, price) ==
    [id |-> None, user_id |-> rq.user_id, symbol |-> rq.symbol,
     order_type |-> rq.order_type, side |-> rq.side, quantity |-> rq.quantity,
     price |-> None, status |-> "Pending", position_id |-> None]

\* Order built by create_order before it branches on the side.
NewOrder(rq, price) ==
    [id |-> None, user_id |-> rq.user_id, symbol |-> rq.symbol,
     order_type |-> rq.order_type, side |-> rq.side, quantity |-> rq.quantity,
     price |-> Some(price), status |-> "Filled", position_id |-> None]

\* Position built by update_position_for_buy_order when none was found.
NewPosition(order, price) ==
    [id |-> None, user_id |-> order.user_id, symbol |-> order.symbol,
     quantity |-> order.quantity, entry_price |-> price, current_price |-> price,
     unrealized_pnl |-> F(0), realized_pnl |-> F(0), side |-> "Buy"]

\* Average-cost update of an existing position by a Buy.
BuyAveraged(position, order, price) ==
    LET total_quantity == RAdd(position.quantity, order.quantity)
        total_cost == RAdd(RMul(position.quantity, position.entry_price),
                           RMul(order.quantity, price))
    IN  [position EXCEPT !.entry_price = RDiv(total_cost, total_quantity),
                         !.quantity = total_quantity,
                         !.current_price = price]

\* Reduction of a position by a partial Sell.
SellReduced(position, order, price) ==
    LET realized_pnl == RMul(RSub(price, position.entry_price), order.quantity)
    IN  [position EXCEPT !.quantity = RSub(position.quantity, order.quantity),
                         !.realized_pnl = RAdd(position.realized_pnl, realized_pnl)]

GetUserBalance(us, u) == us[u].paper_balance_usd

UpdateUserBalance(us, u, new_balance) ==
    [us EXCEPT ![u].paper_balance_usd = new_balance]

GetPositionByUserAndSymbol(coll, u, s) ==
    LET d == FindOne(coll, LAMBDA doc : doc.user_id = u /\ doc.symbol = s)
    IN  IF d = None THEN None ELSE Some(FromDocument(Unwrap(d), PositionFields))

GetPositionsByUserId(coll, u) ==
    LET docs == Find(coll, LAMBDA doc : doc.user_id = u)
    IN  [i \in 1..Len(docs) |-> FromDocument(docs[i], PositionFields)]

GetOrdersByUserId(coll, u) ==
    LET docs == Find(coll, LAMBDA doc : doc.user_id = u)
    IN  [i \in 1..Len(docs) |-> FromDocument(docs[i], OrderFields)]

CreatePosition(coll, position, oid) ==
    [result |-> Ok,
     positions |-> InsertOne(coll, ToDocument(position), oid),
     position |-> Some([position EXCEPT !.id = Some(oid)])]

UpdatePosition(coll, position) ==
    IF position.id = None
    THEN [result |-> PositionIdRequired, positions |-> coll, position |-> None]
    ELSE [result |-> Ok,
          positions |-> ReplaceOne(coll, Unwrap(position.id), ToDocument(position)),
          position |-> Some(position)]

DeletePosition(coll, position_id) == DeleteOne(coll, position_id)

CreateOrder(coll, order, oid) ==
    [orders |-> InsertOne(coll, ToDocument(order), oid),
     order |-> [order EXCEPT !.id = Some(oid)]]

\* The write of update_position_for_buy_order, given the position it read.
UpdatePositionForBuyOrder(coll, position_opt, order, price, oid) ==
    IF position_opt = None
    THEN CreatePosition(coll, NewPosition(order, price), oid)
    ELSE UpdatePosition(coll, BuyAveraged(Unwrap(position_opt), order, price))

\* update_position_for_sell_order
UpdatePositionForSellOrder(coll, order, position, price) ==
    IF position.quantity = order.quantity
    THEN IF IsSome(position.id)
         THEN [result |-> Ok,
               positions |-> DeletePosition(coll, Unwrap(position.id)),
               position |-> None]
         ELSE [result |-> PositionIdNotFound, positions |-> coll, position |-> None]
    ELSE UpdatePosition(coll, SellReduced(position, order, price))

\* Option<Position> -> Option<ObjectId>  (p.id / map(|p| p.id).flatten())
PositionIdOf(position_opt) ==
    IF position_opt = None THEN None ELSE Unwrap(position_opt).id

\* the comparison turned round
ExceedsBalance_Inverted(order_cost, user_balance) == RLt(order_cost, user_balance)

\* Buy: order_cost > user_balance
ExceedsBalance(order_cost, user_balance) == RGt(order_cost, user_balance)

\* the comparison turned round
HeldLessThan_Inverted(held, requested) == RGt(held, requested)

\* Sell: pos.quantity < req.quantity
HeldLessThan(held, requested) == RLt(held, requested)

\* create_order run from entry to return with no other task in between, on the
\* database db = [users, positions, orders, nextId], for the request c.req at the
\* ticker price c.price.
RunAlone(db, c) ==
    LET rq == c.req
        price == c.price
        order_cost == RMul(price, rq.quantity)
        user_balance == GetUserBalance(db.users, rq.user_id)
        order == NewOrder(rq, price)
        position_opt == GetPositionByUserAndSymbol(db.positions, rq.user_id, rq.symbol)
        Save(d, w) ==
            IF w.result # Ok
            THEN [db |-> [d EXCEPT !.positions = w.positions], result |-> w.result]
            ELSE LET created == Len(w.positions) > Len(d.positions)
                     oid == IF created THEN d.nextId + 1 ELSE d.nextId
                     o == CreateOrder(d.orders,
                                      [order EXCEPT !.position_id = PositionIdOf(w.position)],
                                      oid)
                 IN  [db |-> [d EXCEPT !.positions = w.positions,
                                       !.orders = o.orders,
                                       !.nextId = oid + 1],
                      result |-> Ok]
    IN  IF rq.side = "Buy"
        THEN IF ExceedsBalance(order_cost, user_balance)
             THEN [db |-> db, result |-> InsufficientBalance]
             ELSE LET d == [db EXCEPT !.users = UpdateUserBalance(
                                @, rq.user_id, RSub(user_balance, order_cost))]
                  IN  Save(d, UpdatePositionForBuyOrder(d.positions, position_opt,
                                                        order, price, d.nextId))
        ELSE IF position_opt = None
             THEN [db |-> db, result |-> NoPosition]
             ELSE IF HeldLessThan(Unwrap(position_opt).quantity, rq.quantity)
             THEN [db |-> db, result |-> InsufficientQuantity]
             ELSE LET d == [db EXCEPT !.users = UpdateUserBalance(
                                @, rq.user_id, RAdd(user_balance, order_cost))]
                  IN  Save(d, UpdatePositionForSellOrder(d.positions, order,
                                                         Unwrap(position_opt), price))

\* ------------------------------------------------------------ state
VARIABLES
    users,      \* collection "users": user id -> paper balance fields
    positions,  \* collection "paper_trading_positions", in insertion order
    orders,     \* collection "paper_trading_orders", in insertion order
    nextId,     \* next ObjectId the driver generates
    pc,         \* per task: where its create_order call stands
    req,        \* per task: the CreateOrderRequest and owner of its call
    loc,        \* per task: the locals of its create_order call
    result,     \* per task: what its call returned
    wlog,       \* per task: the persistence writes its call has issued so far
    hist,       \* database when the ledger was last idle, and the calls begun since
    calls,      \* number of requests begun
    strategies,         \* collection "strategies", in insertion order
    nextStrategyId,     \* next ObjectId generated for a strategy
    active_strategies,  \* symbol -> Option<list of active strategy ids>
    strategy_cache,     \* strategy id -> Option<Strategy>
    subscriptions,      \* MarketService.subscriptions: the symbols tracked
    unsubscribe_calls,  \* symbols the last strategy call unsubscribed, in call order
    sresult,            \* what the last strategy call returned
    published,          \* number of price_tx.send calls of the market data stream
    hub_tail,           \* number of ticks the channel has stored (position of the next)
    hub_buffer,         \* positions of the ticks retained and not yet received
    rx,                 \* the receiver of the price listener task: [state, next]
    received,           \* positions of the ticks the listener received, in order
    dropped,            \* positions of the ticks overwritten before they were received
    market_signal,      \* << strategy id, symbol >> -> what evaluating it now yields
    trigger,            \* the last evaluation trigger run: [kind, symbol]
    triggers,           \* number of evaluation triggers run
    evaluated,          \* << strategy id, symbol >> evaluated by the last trigger
    placed_orders,      \* << strategy id, symbol >> -> triggers that placed an order
    eresult,            \* what the last trigger returned
    signals_fired,      \* the place_order calls made, each with the request it submitted
    signal_input,       \* indicator values handed to a signal rule
    signal_output,      \* the order side the rule issued
    indicator_input,    \* prices and periods handed to the indicators
    indicator_output,   \* the series the indicators returned
    signal_history,     \* the order sides issued by successive evaluations, in order
    inflight,           \* the evaluation call in progress: where it stands, its locals
    background,         \* the registry and hub of the StrategyService built in main
    locks,              \* the three RwLocks: who holds each and who waits, in order
    programs            \* per task: the lock operations its call still has to make

dbVars == << users, positions, orders, nextId >>

taskVars == << pc, req, loc, result, wlog >>

ledgerVars == << users, positions, orders, nextId, pc, req, loc, result, wlog, hist >>

registryVars == << strategies, nextStrategyId, active_strategies, strategy_cache,
                   subscriptions, unsubscribe_calls, sresult >>

hubVars == << published, hub_tail, hub_buffer, rx, received, dropped >>

evalVars == << market_signal, trigger, triggers, evaluated, placed_orders, eresult,
              signals_fired >>

signalVars == << signal_input, signal_output, indicator_input, indicator_output,
                 signal_history >>

engineVars == << inflight, background, locks, programs >>

vars == << users, positions, orders, nextId, pc, req, loc, result, wlog, hist,
           calls, strategies, nextStrategyId, active_strategies, strategy_cache,
           subscriptions, unsubscribe_calls, sresult,
           published, hub_tail, hub_buffer, rx, received, dropped,
           market_signal, trigger, triggers, evaluated, placed_orders, eresult,
           signals_fired,
           signal_input, signal_output, indicator_input, indicator_output,
           signal_history, inflight, background, locks, programs >>

Db == [users |-> users, positions |-> positions, orders |-> orders, nextId |-> nextId]

NoRequest ==
    [user_id |-> "", symbol |-> "", order_type |-> "Market", side |-> "", quantity |-> F(0)]

NoLocals ==
    [price |-> F(0), order_cost |-> F(0), user_balance |-> F(0), position |-> None,
     order |-> NewOrder(NoRequest, F(0)), todo |-> << >>]

Idle == \A t \in Tasks : pc[t] = "idle"

LedgerInit ==
    /\ \E b \in InitialBalances :
          users = [u \in Users |-> [paper_balance_usd |-> b,
                                    initial_paper_balance_usd |-> b]]
    /\ positions = << >>
    /\ orders = << >>
    /\ nextId = 1
    /\ pc = [t \in Tasks |-> "idle"]
    /\ req = [t \in Tasks |-> NoRequest]
    /\ loc = [t \in Tasks |-> NoLocals]
    /\ result = [t \in Tasks |-> NoResult]
    /\ wlog = [t \in Tasks |-> << >>]
    /\ hist = [base |-> [users |-> users, positions |-> << >>, orders |-> << >>,
                         nextId |-> 1],
               batch |-> << >>]
    /\ calls = 0

\* ------------------------------------------------------------ create_order steps
Finish(t, r) ==
    /\ pc' = [pc EXCEPT ![t] = "done"]
    /\ result' = [result EXCEPT ![t] = r]

\* Entry of create_order up to the return of get_ticker_price.
Begin(t) ==
    /\ pc[t] = "idle"
    /\ calls < MaxCalls
    /\ \E u \in Traders, s \in Symbols, sd \in Sides, q \in Quantities, price \in Prices :
          LET rq == [user_id |-> u, symbol |-> s, order_type |-> "Market",
                     side |-> sd, quantity |-> q]
          IN  /\ req' = [req EXCEPT ![t] = rq]
              /\ loc' = [loc EXCEPT ![t] = [NoLocals EXCEPT !.price = price,
                                               !.order_cost = RMul(price, q)]]
              /\ hist' = IF Idle
                         THEN [base |-> Db, batch |-> << [req |-> rq, price |-> price] >>]
                         ELSE [hist EXCEPT !.batch = Append(@, [req |-> rq, price |-> price])]
    /\ pc' = [pc EXCEPT ![t] = "get_user_balance"]
    /\ result' = [result EXCEPT ![t] = NoResult]
    /\ wlog' = [wlog EXCEPT ![t] = << >>]
    /\ calls' = calls + 1
    /\ UNCHANGED << dbVars, registryVars, hubVars, evalVars, signalVars, engineVars >>

\* get_user_balance returns; the order is built; a Buy is checked against the balance.
ReadBalance(t) ==
    /\ pc[t] = "get_user_balance"
    /\ LET user_balance == GetUserBalance(users, req[t].user_id)
       IN  /\ loc' = [loc EXCEPT ![t].user_balance = user_balance,
                                 ![t].order = NewOrder(req[t], loc[t].price)]
           /\ IF req[t].side = "Buy"
              THEN IF ExceedsBalance(loc[t].order_cost, user_balance)
                   THEN Finish(t, InsufficientBalance)
                   ELSE /\ pc' = [pc EXCEPT ![t] = "buy_update_balance"]
                        /\ UNCHANGED result
              ELSE /\ pc' = [pc EXCEPT ![t] = "sell_get_position"]
                   /\ UNCHANGED result
    /\ UNCHANGED << dbVars, req, wlog, hist, calls, registryVars, hubVars, evalVars, signalVars, engineVars >>

BuyUpdateBalance(t) ==
    /\ pc[t] = "buy_update_balance"
    /\ users' = UpdateUserBalance(users, req[t].user_id,
                                  RSub(loc[t].user_balance, loc[t].order_cost))
    /\ wlog' = [wlog EXCEPT ![t] = Append(@, "balance")]
    /\ pc' = [pc EXCEPT ![t] = "buy_get_position"]
    /\ UNCHANGED << positions, orders, nextId, req, loc, result, hist, calls, registryVars, hubVars, evalVars, signalVars, engineVars >>

BuyGetPosition(t) ==
    /\ pc[t] = "buy_get_position"
    /\ loc' = [loc EXCEPT ![t].position =
                  GetPositionByUserAndSymbol(positions, req[t].user_id, req[t].symbol)]
    /\ pc' = [pc EXCEPT ![t] = "buy_position"]
    /\ UNCHANGED << dbVars, req, result, wlog, hist, calls, registryVars, hubVars, evalVars, signalVars, engineVars >>

\* create_position or update_position returns to update_position_for_buy_order.
BuyPosition(t) ==
    /\ pc[t] = "buy_position"
    /\ LET w == UpdatePositionForBuyOrder(positions, loc[t].position, loc[t].order,
                                          loc[t].price, nextId)
       IN  /\ positions' = w.positions
           /\ nextId' = IF loc[t].position = None THEN nextId + 1 ELSE nextId
           /\ IF w.result = Ok
              THEN /\ loc' = [loc EXCEPT ![t].order.position_id = PositionIdOf(w.position)]
                   /\ wlog' = [wlog EXCEPT ![t] = Append(@, "position")]
                   /\ pc' = [pc EXCEPT ![t] = "save_order"]
                   /\ UNCHANGED result
              ELSE /\ Finish(t, w.result)
                   /\ UNCHANGED << loc, wlog >>
    /\ UNCHANGED << users, orders, req, hist, calls, registryVars, hubVars, evalVars, signalVars, engineVars >>

SellGetPosition(t) ==
    /\ pc[t] = "sell_get_position"
    /\ LET position_opt ==
              GetPositionByUserAndSymbol(positions, req[t].user_id, req[t].symbol)
       IN  /\ loc' = [loc EXCEPT ![t].position = position_opt]
           /\ IF position_opt = None
              THEN Finish(t, NoPosition)
              ELSE IF HeldLessThan(Unwrap(position_opt).quantity, req[t].quantity)
              THEN Finish(t, InsufficientQuantity)
              ELSE /\ pc' = [pc EXCEPT ![t] = "sell_update_balance"]
                   /\ UNCHANGED result
    /\ UNCHANGED << dbVars, req, wlog, hist, calls, registryVars, hubVars, evalVars, signalVars, engineVars >>

SellUpdateBalance(t) ==
    /\ pc[t] = "sell_update_balance"
    /\ users' = UpdateUserBalance(users, req[t].user_id,
                                  RAdd(loc[t].user_balance, loc[t].order_cost))
    /\ wlog' = [wlog EXCEPT ![t] = Append(@, "balance")]
    /\ pc' = [pc EXCEPT ![t] = "sell_position"]
    /\ UNCHANGED << positions, orders, nextId, req, loc, result, hist, calls, registryVars, hubVars, evalVars, signalVars, engineVars >>

\* update_position_for_sell_order: delete_position or update_position.
SellPosition(t) ==
    /\ pc[t] = "sell_position"
    /\ LET w == UpdatePositionForSellOrder(positions, loc[t].order,
                                           Unwrap(loc[t].position), loc[t].price)
       IN  /\ positions' = w.positions
           /\ IF w.result = Ok
              THEN /\ loc' = [loc EXCEPT ![t].order.position_id = PositionIdOf(w.position)]
                   /\ wlog' = [wlog EXCEPT ![t] = Append(@, "position")]
                   /\ pc' = [pc EXCEPT ![t] = "save_order"]
                   /\ UNCHANGED result
              ELSE /\ Finish(t, w.result)
                   /\ UNCHANGED << loc, wlog >>
    /\ UNCHANGED << users, orders, nextId, req, hist, calls, registryVars, hubVars, evalVars, signalVars, engineVars >>

\* repository.create_order returns; create_order returns Ok.
SaveOrder(t) ==
    /\ pc[t] = "save_order"
    /\ LET o == CreateOrder(orders, loc[t].order, nextId)
       IN  /\ orders' = o.orders
           /\ loc' = [loc EXCEPT ![t].order = o.order]
    /\ nextId' = nextId + 1
    /\ wlog' = [wlog EXCEPT ![t] = Append(@, "order")]
    /\ Finish(t, Ok)
    /\ UNCHANGED << users, positions, req, hist, calls, registryVars, hubVars, evalVars, signalVars, engineVars >>

\* The handler has answered; the task is free for the next request.
Return(t) ==
    /\ pc[t] = "done"
    /\ pc' = [pc EXCEPT ![t] = "idle"]
    /\ req' = [req EXCEPT ![t] = NoRequest]
    /\ loc' = [loc EXCEPT ![t] = NoLocals]
    /\ result' = [result EXCEPT ![t] = NoResult]
    /\ wlog' = [wlog EXCEPT ![t] = << >>]
    /\ UNCHANGED << dbVars, hist, calls, registryVars, hubVars, evalVars, signalVars, engineVars >>

\* the position is written under its owner and symbol with the price as entry price
RefreshPosition_Reprice(coll, p, price) ==
    LET position == [p EXCEPT !.current_price = price, !.entry_price = price,
                              !.unrealized_pnl = F(0)]
    IN  [positions |-> [i \in 1..Len(coll) |->
                           IF coll[i].user_id = p.user_id /\ coll[i].symbol = p.symbol
                           THEN ToDocument(position) ELSE coll[i]],
         result |-> IF position.id = None THEN Panic ELSE Ok]

\* get_positions, one round of the loop: the position read earlier is repriced, written
\* back when it carries an id, and converted to a PositionResponse (id.unwrap()).
RefreshPosition(coll, p, price) ==
    LET position == [p EXCEPT !.current_price = price,
                              !.unrealized_pnl =
                                  RMul(RSub(price, p.entry_price), p.quantity)]
        coll1 == IF IsSome(position.id)
                 THEN UpdatePosition(coll, position).positions
                 ELSE coll
    IN  [positions |-> coll1, result |-> IF position.id = None THEN Panic ELSE Ok]

\* get_positions up to the return of get_positions_by_user_id
GetPositions(t) ==
    /\ pc[t] = "idle"
    /\ calls < MaxCalls
    /\ \E u \in Traders :
          /\ req' = [req EXCEPT ![t] = [NoRequest EXCEPT !.user_id = u,
                                           !.order_type = "get_positions"]]
          /\ loc' = [loc EXCEPT ![t] = [NoLocals EXCEPT
                                           !.todo = GetPositionsByUserId(positions, u)]]
    /\ pc' = [pc EXCEPT ![t] = "get_positions_loop"]
    /\ result' = [result EXCEPT ![t] = NoResult]
    /\ calls' = calls + 1
    /\ UNCHANGED << dbVars, wlog, hist, registryVars, hubVars, evalVars, signalVars, engineVars >>

\* get_positions, the next position of the loop, or the return after the last one
GetPositionsStep(t) ==
    /\ pc[t] = "get_positions_loop"
    /\ IF loc[t].todo = << >>
       THEN /\ Finish(t, Ok)
            /\ UNCHANGED << positions, loc >>
       ELSE \E price \in Prices :
                LET r == RefreshPosition(positions, Head(loc[t].todo), price)
                IN  /\ positions' = r.positions
                    /\ IF r.result = Ok
                       THEN /\ loc' = [loc EXCEPT ![t].todo = Tail(@)]
                            /\ UNCHANGED << pc, result >>
                       ELSE /\ Finish(t, r.result)
                            /\ UNCHANGED loc
    /\ UNCHANGED << users, orders, nextId, req, wlog, hist, calls, registryVars, hubVars,
                    evalVars, signalVars, engineVars >>

\* get_orders: the orders of the owner, each converted to an OrderResponse (id.unwrap()).
GetOrders(t) ==
    /\ pc[t] = "idle"
    /\ calls < MaxCalls
    /\ \E u \in Traders :
          LET os == GetOrdersByUserId(orders, u)
          IN  /\ Finish(t, IF \E i \in 1..Len(os) : os[i].id = None THEN Panic ELSE Ok)
              /\ req' = [req EXCEPT ![t] = [NoRequest EXCEPT !.user_id = u,
                                               !.order_type = "get_orders"]]
    /\ calls' = calls + 1
    /\ UNCHANGED << dbVars, loc, wlog, hist, registryVars, hubVars, evalVars, signalVars, engineVars >>

\* get_user_balance_details: cash balance, position value and performance are
\* computed from reads only.
GetUserBalanceDetails(t) ==
    /\ pc[t] = "idle"
    /\ calls < MaxCalls
    /\ \E u \in Traders :
          /\ Finish(t, Ok)
          /\ req' = [req EXCEPT ![t] = [NoRequest EXCEPT !.user_id = u,
                                           !.order_type = "get_user_balance_details"]]
          /\ loc' = [loc EXCEPT ![t].user_balance = GetUserBalance(users, u)]
    /\ calls' = calls + 1
    /\ UNCHANGED << dbVars, wlog, hist, registryVars, hubVars, evalVars, signalVars, engineVars >>

LedgerNext ==
    \E t \in Tasks :
        \/ Begin(t)
        \/ ReadBalance(t)
        \/ BuyUpdateBalance(t)
        \/ BuyGetPosition(t)
        \/ BuyPosition(t)
        \/ SellGetPosition(t)
        \/ SellUpdateBalance(t)
        \/ SellPosition(t)
        \/ SaveOrder(t)
        \/ Return(t)
        \/ GetPositions(t)
        \/ GetPositionsStep(t)
        \/ GetOrders(t)
        \/ GetUserBalanceDetails(t)

\* ------------------------------------------------------------ strategies: pure parts
\* Number of strategies a behaviour creates.
MaxStrategies == 2

StrategyIds == 1..MaxStrategies

Statuses == {"Active", "Paused", "Stopped"}

\* Strategy.symbols / UpdateStrategyRequest.symbols values
SymbolLists == {<< "BTC-USDT" >>, << "ETH-USDT" >>, << "BTC-USDT", "ETH-USDT" >>}

\* Strategy.parameters values
ParameterSets == {"p1", "p2"}

NotFoundError == [kind |-> "NotFoundError", msg |-> "Strategy not found"]

AuthorizationError == [kind |-> "AuthorizationError", msg |-> "You don't own this strategy"]

Contains(list, x) == \E i \in 1..Len(list) : list[i] = x

\* Strategy.id is serialized as _id and left out when None.
StrategyToDocument(strategy) ==
    [k \in (DOMAIN strategy \ {"id"}) \cup (IF strategy.id = None THEN {} ELSE {"_id"}) |->
        IF k = "_id" THEN Unwrap(strategy.id) ELSE strategy[k]]

StrategyFromDocument(doc) ==
    [k \in (DOMAIN doc \ {"_id"}) \cup {"id"} |->
        IF k = "id" THEN Some(doc["_id"]) ELSE doc[k]]

\* StrategyRepository::get_strategy_by_id
GetStrategyById(coll, strategy_id) ==
    LET d == FindOne(coll, LAMBDA doc : doc["_id"] = strategy_id)
    IN  IF d = None THEN None ELSE Some(StrategyFromDocument(Unwrap(d)))

\* StrategyRepository::update_strategy: update_one({_id}, {$set: document})
RepoUpdateStrategy(coll, strategy) ==
    LET m == Matching(coll, LAMBDA doc : doc["_id"] = Unwrap(strategy.id))
    IN  IF m = {} THEN coll
        ELSE [coll EXCEPT ![First(m)] = StrategyToDocument(strategy)]

\* StrategyRepository::delete_strategy
RepoDeleteStrategy(coll, strategy_id) == DeleteOne(coll, strategy_id)

\* The registry: reg = [active_strategies, strategy_cache, subscriptions,
\* unsubscribe_calls], the last being the symbols unsubscribe_from_symbol was
\* called with, in call order, since the running strategy call began.
SubscribeToSymbol(reg, symbol) ==
    [reg EXCEPT !.subscriptions = @ \cup {symbol}]

UnsubscribeFromSymbol(reg, symbol) ==
    [reg EXCEPT !.subscriptions = @ \ {symbol},
                !.unsubscribe_calls = Append(@, symbol)]

AddStrategyToSymbol(reg, symbol, strategy_id) ==
    LET entry == reg.active_strategies[symbol]
    IN  IF IsSome(entry)
        THEN IF Contains(Unwrap(entry), strategy_id)
             THEN reg
             ELSE [reg EXCEPT !.active_strategies[symbol] =
                                 Some(Append(Unwrap(entry), strategy_id))]
        ELSE [reg EXCEPT !.active_strategies[symbol] = Some(<< strategy_id >>)]

RemoveStrategyFromSymbol(reg, symbol, strategy_id) ==
    LET entry == reg.active_strategies[symbol]
    IN  IF IsSome(entry)
        THEN LET list == SelectSeq(Unwrap(entry), LAMBDA id : id # strategy_id)
             IN  IF list = << >>
                 THEN UnsubscribeFromSymbol(
                          [reg EXCEPT !.active_strategies[symbol] = None], symbol)
                 ELSE [reg EXCEPT !.active_strategies[symbol] = Some(list)]
        ELSE reg

CacheStrategy(reg, strategy) ==
    IF IsSome(strategy.id)
    THEN [reg EXCEPT !.strategy_cache[Unwrap(strategy.id)] = Some(strategy)]
    ELSE reg

\* for symbol in symbols { remove_strategy_from_symbol(symbol, strategy_id) }
RECURSIVE RemoveFromSymbols(_, _, _)
RemoveFromSymbols(reg, symbols, strategy_id) ==
    IF symbols = << >> THEN reg
    ELSE RemoveFromSymbols(RemoveStrategyFromSymbol(reg, Head(symbols), strategy_id),
                           Tail(symbols), strategy_id)

\* for symbol in symbols { subscribe_to_symbol(symbol); add_strategy_to_symbol(..) }
RECURSIVE AddToSymbols(_, _, _)
AddToSymbols(reg, symbols, strategy_id) ==
    IF symbols = << >> THEN reg
    ELSE AddToSymbols(AddStrategyToSymbol(SubscribeToSymbol(reg, Head(symbols)),
                                          Head(symbols), strategy_id),
                      Tail(symbols), strategy_id)

\* update_strategy_status(strategy_id, old_status, new_status, symbols)
UpdateStrategyStatus(reg, coll, strategy_id, old_status, new_status, symbols) ==
    IF old_status = "Active" /\ new_status # "Active"
    THEN [reg |-> [RemoveFromSymbols(reg, symbols, strategy_id)
                      EXCEPT !.strategy_cache[strategy_id] = None],
          result |-> Ok]
    ELSE IF old_status # "Active" /\ new_status = "Active"
    THEN LET strategy_opt == GetStrategyById(coll, strategy_id)
         IN  IF strategy_opt = None
             THEN [reg |-> reg, result |-> NotFoundError]
             ELSE [reg |-> AddToSymbols(CacheStrategy(reg, Unwrap(strategy_opt)),
                                        symbols, strategy_id),
                   result |-> Ok]
    ELSE [reg |-> reg, result |-> Ok]

\* the id stays listed under the symbols that left the list
ReconcileSymbols_KeepsOld(reg, old_symbols, strategy, strategy_id) ==
    LET come == SelectSeq(strategy.symbols, LAMBDA s : ~Contains(old_symbols, s))
    IN  CacheStrategy(AddToSymbols(reg, come, strategy_id), strategy)

\* update_strategy, the branch for changed symbols of a strategy that is Active
ReconcileSymbols(reg, old_symbols, strategy, strategy_id) ==
    LET gone == SelectSeq(old_symbols, LAMBDA s : ~Contains(strategy.symbols, s))
        come == SelectSeq(strategy.symbols, LAMBDA s : ~Contains(old_symbols, s))
    IN  CacheStrategy(AddToSymbols(RemoveFromSymbols(reg, gone, strategy_id),
                                   come, strategy_id),
                      strategy)

\* The fields of the stored strategy after the request's fields are applied.
ApplyUpdate(strategy, rq) ==
    [strategy EXCEPT
        !.symbols = IF IsSome(rq.symbols) THEN Unwrap(rq.symbols) ELSE @,
        !.parameters = IF IsSome(rq.parameters) THEN Unwrap(rq.parameters) ELSE @,
        !.status = IF IsSome(rq.status) THEN Unwrap(rq.status) ELSE @]

\* changed symbols are reconciled whatever the status is
UpdateStrategyOwned_AnyStatus(coll, reg, stored, strategy_id, rq) ==
    LET old_status == stored.status
        old_symbols == stored.symbols
        strategy == ApplyUpdate(stored, rq)
        status_changed == IsSome(rq.status) /\ Unwrap(rq.status) # stored.status
        coll1 == RepoUpdateStrategy(coll, strategy)
    IN  IF status_changed /\ (old_status = "Active" \/ strategy.status = "Active")
        THEN LET r == UpdateStrategyStatus(reg, coll1, strategy_id, old_status,
                                           strategy.status, strategy.symbols)
             IN  [strategies |-> coll1, reg |-> r.reg, result |-> r.result]
        ELSE IF old_symbols # strategy.symbols
        THEN [strategies |-> coll1,
              reg |-> ReconcileSymbols(reg, old_symbols, strategy, strategy_id),
              result |-> Ok]
        ELSE [strategies |-> coll1, reg |-> reg, result |-> Ok]

\* update_strategy after the ownership check, on the database collection coll and
\* the registry reg: [strategies, reg, result]
UpdateStrategyOwned(coll, reg, stored, strategy_id, rq) ==
    LET old_status == stored.status
        old_symbols == stored.symbols
        strategy == ApplyUpdate(stored, rq)
        status_changed == IsSome(rq.status) /\ Unwrap(rq.status) # stored.status
        coll1 == RepoUpdateStrategy(coll, strategy)
    IN  IF status_changed
        THEN LET r == UpdateStrategyStatus(reg, coll1, strategy_id, old_status,
                                           strategy.status, strategy.symbols)
             IN  [strategies |-> coll1, reg |-> r.reg, result |-> r.result]
        ELSE IF old_symbols # strategy.symbols /\ strategy.status = "Active"
        THEN [strategies |-> coll1,
              reg |-> ReconcileSymbols(reg, old_symbols, strategy, strategy_id),
              result |-> Ok]
        ELSE [strategies |-> coll1, reg |-> reg, result |-> Ok]

\* StrategyRepository::get_active_strategies: find({status: "Active"})
GetActiveStrategies(coll) ==
    LET docs == Find(coll, LAMBDA doc : doc.status = "Active")
    IN  [i \in 1..Len(docs) |-> StrategyFromDocument(docs[i])]

EmptyRegistry ==
    [active_strategies |-> [s \in Symbols |-> None],
     strategy_cache |-> [id \in StrategyIds |-> None],
     subscriptions |-> {},
     unsubscribe_calls |-> << >>]

\* load_active_strategies: each stored Active strategy is cached, its symbols are
\* subscribed and its id is listed under them.
RECURSIVE LoadStrategies(_, _)
LoadStrategies(reg, list) ==
    IF list = << >> THEN reg
    ELSE LoadStrategies(AddToSymbols(CacheStrategy(reg, Head(list)),
                                     Head(list).symbols, Unwrap(Head(list).id)),
                        Tail(list))

LoadActiveStrategies(coll) == LoadStrategies(EmptyRegistry, GetActiveStrategies(coll))

\* A strategy as create_strategy builds it, with the status it has later.
NewStrategy(strategy_id, u, status, symbols, parameters) ==
    [id |-> Some(strategy_id), user_id |-> u, status |-> status, symbols |-> symbols,
     parameters |-> parameters, last_executed_at |-> None]

\* ------------------------------------------------------------ strategies: state
Registry ==
    [active_strategies |-> active_strategies, strategy_cache |-> strategy_cache,
     subscriptions |-> subscriptions, unsubscribe_calls |-> << >>]

RegistryInit ==
    /\ strategies = << >>
    /\ nextStrategyId = 1
    /\ active_strategies = [s \in Symbols |-> None]
    /\ strategy_cache = [id \in StrategyIds |-> None]
    /\ subscriptions = {}
    /\ unsubscribe_calls = << >>
    /\ sresult = NoResult

\* The service started on the stored strategies coll: StrategyService::new has run
\* load_active_strategies.
StartedOn(coll) ==
    /\ strategies = coll
    /\ nextStrategyId = Len(coll) + 1
    /\ active_strategies = LoadActiveStrategies(coll).active_strategies
    /\ strategy_cache = LoadActiveStrategies(coll).strategy_cache
    /\ subscriptions = LoadActiveStrategies(coll).subscriptions
    /\ unsubscribe_calls = << >>
    /\ sresult = NoResult

SetRegistry(reg) ==
    /\ active_strategies' = reg.active_strategies
    /\ strategy_cache' = reg.strategy_cache
    /\ subscriptions' = reg.subscriptions
    /\ unsubscribe_calls' = reg.unsubscribe_calls

\* create_strategy: the strategy is stored Paused; the registry is not touched.
CreateStrategy ==
    /\ nextStrategyId <= MaxStrategies
    /\ \E u \in Traders, symbols \in SymbolLists, parameters \in ParameterSets :
          strategies' = Append(strategies,
              StrategyToDocument(NewStrategy(nextStrategyId, u, "Paused", symbols,
                                             parameters)))
    /\ nextStrategyId' = nextStrategyId + 1
    /\ sresult' = Ok
    /\ unsubscribe_calls' = << >>
    /\ UNCHANGED << ledgerVars, calls, hubVars, evalVars, signalVars, engineVars, active_strategies, strategy_cache, subscriptions >>

UpdateRequests ==
    [status : {None} \cup {Some(st) : st \in Statuses},
     symbols : {None} \cup {Some(l) : l \in SymbolLists},
     parameters : {None} \cup {Some(x) : x \in ParameterSets}]

\* update_strategy, from the lookup to the return, on the database collection coll
\* and the registry reg: [strategies, reg, result]
UpdateStrategyCall(coll, reg, u, strategy_id, rq) ==
    LET strategy_opt == GetStrategyById(coll, strategy_id)
    IN  IF strategy_opt = None
        THEN [strategies |-> coll, reg |-> reg, result |-> NotFoundError]
        ELSE IF Unwrap(strategy_opt).user_id # u
        THEN [strategies |-> coll, reg |-> reg, result |-> AuthorizationError]
        ELSE UpdateStrategyOwned(coll, reg, Unwrap(strategy_opt), strategy_id, rq)

\* get_strategy: [result, strategy]
GetStrategyCall(coll, u, strategy_id) ==
    LET strategy_opt == GetStrategyById(coll, strategy_id)
    IN  IF strategy_opt = None
        THEN [result |-> NotFoundError, strategy |-> None]
        ELSE IF Unwrap(strategy_opt).user_id # u
        THEN [result |-> AuthorizationError, strategy |-> None]
        ELSE [result |-> Ok, strategy |-> strategy_opt]

\* the stored strategy is deleted whoever asks
DeleteStrategyCall_NoOwnerCheck(coll, u, strategy_id) ==
    LET strategy_opt == GetStrategyById(coll, strategy_id)
    IN  IF strategy_opt = None
        THEN [strategies |-> coll, result |-> NotFoundError]
        ELSE [strategies |-> RepoDeleteStrategy(coll, strategy_id), result |-> Ok]

\* delete_strategy: [strategies, result]
DeleteStrategyCall(coll, u, strategy_id) ==
    LET strategy_opt == GetStrategyById(coll, strategy_id)
    IN  IF strategy_opt = None
        THEN [strategies |-> coll, result |-> NotFoundError]
        ELSE IF Unwrap(strategy_opt).user_id # u
        THEN [strategies |-> coll, result |-> AuthorizationError]
        ELSE [strategies |-> RepoDeleteStrategy(coll, strategy_id), result |-> Ok]

\* update_strategy called by one of the callers on one of the ids with one of the
\* requests
UpdateStrategyBy(callers, ids, requests) ==
    /\ \E u \in callers, strategy_id \in ids, rq \in requests :
          \E r \in {UpdateStrategyCall(strategies, Registry, u, strategy_id, rq)} :
              /\ strategies' = r.strategies
              /\ SetRegistry(r.reg)
              /\ sresult' = r.result
    /\ UNCHANGED << ledgerVars, calls, hubVars, evalVars, signalVars, engineVars, nextStrategyId >>

\* update_strategy called with one of the given requests
UpdateStrategyFrom(requests) == UpdateStrategyBy(Users, StrategyIds, requests)

\* update_strategy
UpdateStrategy == UpdateStrategyFrom(UpdateRequests)

\* get_strategy: nothing but the answer changes.
GetStrategy ==
    /\ \E u \in Users, strategy_id \in StrategyIds :
          sresult' = GetStrategyCall(strategies, u, strategy_id).result
    /\ unsubscribe_calls' = << >>
    /\ UNCHANGED << ledgerVars, calls, hubVars, evalVars, signalVars, engineVars, strategies,
                    nextStrategyId, active_strategies, strategy_cache, subscriptions >>

\* delete_strategy: the stored strategy is deleted; the registry is not touched.
DeleteStrategy ==
    /\ \E u \in Users, strategy_id \in StrategyIds :
          \E r \in {DeleteStrategyCall(strategies, u, strategy_id)} :
              /\ strategies' = r.strategies
              /\ sresult' = r.result
    /\ unsubscribe_calls' = << >>
    /\ UNCHANGED << ledgerVars, calls, hubVars, evalVars, signalVars, engineVars, nextStrategyId, active_strategies,
                    strategy_cache, subscriptions >>

\* update requests that leave the parameters alone
OwnershipRequests == {rq \in UpdateRequests : rq.parameters = None}

\* the three calls on one stored strategy, by its owner and by another user
OwnershipNext ==
    \/ UpdateStrategyFrom(OwnershipRequests)
    \/ GetStrategy
    \/ DeleteStrategy

RegistryNext ==
    \/ CreateStrategy
    \/ UpdateStrategy
    \/ DeleteStrategy

\* ------------------------------------------------------------ price hub
\* Number of ticks the market data stream publishes in a behaviour.
MaxTicks == 130

\* broadcast::channel::<PriceUpdate>(100)
ChannelCapacity == 100

\* usize::next_power_of_two
RECURSIVE NextPowerOfTwoFrom(_, _)
NextPowerOfTwoFrom(p, n) == IF p >= n THEN p ELSE NextPowerOfTwoFrom(2 * p, n)

NextPowerOfTwo(n) == NextPowerOfTwoFrom(1, n)

\* Slots of the channel: tokio::sync::broadcast rounds the requested capacity up
\* to a power of two, and a value stays until the slot is written again.
BufferLen == NextPowerOfTwo(ChannelCapacity)

NoReceiver == [state |-> "none", next |-> 0]

\* a full buffer takes the value without giving any up
SendStore_Unbounded(buffer, pos) == [buffer |-> Append(buffer, pos), lost |-> << >>]

\* a full buffer keeps what it has and loses the value sent
SendStore_DropNewest(buffer, pos) ==
    IF Len(buffer) = BufferLen
    THEN [buffer |-> buffer, lost |-> << pos >>]
    ELSE [buffer |-> Append(buffer, pos), lost |-> << >>]

\* Sender::send with a receiver open: the value is written at position pos; when
\* every slot holds a value not yet received, the slot of the oldest is reused.
SendStore(buffer, pos) ==
    IF Len(buffer) = BufferLen
    THEN [buffer |-> Append(Tail(buffer), pos), lost |-> << Head(buffer) >>]
    ELSE [buffer |-> Append(buffer, pos), lost |-> << >>]

HubInit ==
    /\ published = 0
    /\ hub_tail = 0
    /\ hub_buffer = << >>
    /\ rx = NoReceiver
    /\ received = << >>
    /\ dropped = << >>

\* start_market_data_stream, one price_tx.send for a subscribed symbol: it stores
\* the tick when a receiver is open and returns an error, which is ignored, when
\* none is; it never waits.
Publish ==
    /\ published < MaxTicks
    /\ subscriptions # {}
    /\ published' = published + 1
    /\ IF rx.state = "open"
       THEN LET w == SendStore(hub_buffer, hub_tail)
            IN  /\ hub_buffer' = w.buffer
                /\ dropped' = dropped \o w.lost
                /\ hub_tail' = hub_tail + 1
       ELSE UNCHANGED << hub_buffer, dropped, hub_tail >>
    /\ UNCHANGED << ledgerVars, calls, registryVars, rx, received, evalVars, signalVars, engineVars >>

\* The listener task starts: market_service.subscribe_to_price_updates()
ListenerSubscribe ==
    /\ rx.state = "none"
    /\ rx' = [state |-> "open", next |-> hub_tail]
    /\ UNCHANGED << ledgerVars, calls, registryVars, published, hub_tail, hub_buffer,
                    received, dropped, evalVars, signalVars, engineVars >>

\* while let Ok(price_update) = rx.recv().await { process_price_update(..) }
\* recv waits while nothing is retained, returns the oldest retained tick when it is
\* the one the receiver is at, and returns Err(Lagged) when that one was overwritten;
\* on Err the loop ends and the receiver is dropped.
ListenerRecv ==
    /\ rx.state = "open"
    /\ hub_buffer # << >>
    /\ IF Head(hub_buffer) = rx.next
       THEN /\ received' = Append(received, Head(hub_buffer))
            /\ hub_buffer' = Tail(hub_buffer)
            /\ rx' = [rx EXCEPT !.next = @ + 1]
       ELSE /\ rx' = [state |-> "closed", next |-> Head(hub_buffer)]
            /\ hub_buffer' = << >>
            /\ UNCHANGED received
    /\ UNCHANGED << ledgerVars, calls, registryVars, published, hub_tail, dropped,
                    evalVars, signalVars, engineVars >>

HubNext ==
    \/ Publish
    \/ ListenerSubscribe
    \/ ListenerRecv

\* ------------------------------------------------------------ signal evaluator
\* Number of evaluation triggers (price ticks received, timer sweeps) in a behaviour.
MaxTriggers == 2

Pairs == StrategyIds \X Symbols

\* What evaluating a (strategy, symbol) yields under the present market data: no
\* signal, a signal whose order is placed, or a failure of the market data request
\* or of the order placement.
EvalOutcomes == {"None", "Buy", "Sell", "Error"}

EvaluationError == [kind |-> "InternalError", msg |-> "evaluation failed"]

NoTrigger == [kind |-> "none", symbol |-> ""]

\* execute_ma_crossover_strategy / execute_rsi_strategy / execute_macd_strategy on
\* the present market data: [result, placed]
ExecuteStrategy(signals, strategy_id, symbol) ==
    LET outcome == signals[<< strategy_id, symbol >>]
    IN  IF outcome = "Error" THEN [result |-> EvaluationError, placed |-> << >>]
        ELSE IF outcome = "None" THEN [result |-> Ok, placed |-> << >>]
        ELSE [result |-> Ok, placed |-> << << strategy_id, symbol >> >>]

\* process_price_update, the loop over the ids listed for the symbol; the state is
\* st = [strategies, reg, evaluated, placed, result]
RECURSIVE ProcessStrategies(_, _, _, _, _)
ProcessStrategies(st, signals, ids, symbol, now) ==
    IF ids = << >> THEN st
    ELSE LET strategy_opt == st.reg.strategy_cache[Head(ids)]
         IN  IF strategy_opt = None
             THEN ProcessStrategies(st, signals, Tail(ids), symbol, now)
             ELSE LET e == ExecuteStrategy(signals, Head(ids), symbol)
                      st1 == [st EXCEPT !.evaluated = Append(@, << Head(ids), symbol >>),
                                        !.placed = @ \o e.placed]
                      updated_strategy ==
                          [Unwrap(strategy_opt) EXCEPT !.last_executed_at = Some(now)]
                  IN  IF e.result # Ok
                      THEN [st1 EXCEPT !.result = e.result]
                      ELSE ProcessStrategies(
                               [st1 EXCEPT
                                   !.strategies = RepoUpdateStrategy(@, updated_strategy),
                                   !.reg = CacheStrategy(@, updated_strategy)],
                               signals, Tail(ids), symbol, now)

\* process_price_update
ProcessPriceUpdate(coll, reg, signals, symbol, now) ==
    LET st == [strategies |-> coll, reg |-> reg, evaluated |-> << >>,
               placed |-> << >>, result |-> Ok]
    IN  IF reg.active_strategies[symbol] = None THEN st
        ELSE ProcessStrategies(st, signals, Unwrap(reg.active_strategies[symbol]),
                               symbol, now)

\* execute_strategies, the loop over the symbols of one strategy
RECURSIVE SweepSymbols(_, _, _, _)
SweepSymbols(st, signals, strategy, symbols) ==
    IF symbols = << >> THEN st
    ELSE LET e == ExecuteStrategy(signals, Unwrap(strategy.id), Head(symbols))
             st1 == [st EXCEPT
                        !.evaluated = Append(@, << Unwrap(strategy.id), Head(symbols) >>),
                        !.placed = @ \o e.placed]
         IN  IF e.result # Ok
             THEN [st1 EXCEPT !.result = e.result]
             ELSE SweepSymbols(st1, signals, strategy, Tail(symbols))

\* execute_strategies, the loop over the stored Active strategies
RECURSIVE SweepStrategies(_, _, _, _)
SweepStrategies(st, signals, list, now) ==
    IF list = << >> THEN st
    ELSE LET st1 == SweepSymbols(st, signals, Head(list), Head(list).symbols)
             updated_strategy == [Head(list) EXCEPT !.last_executed_at = Some(now)]
         IN  IF st1.result # Ok THEN st1
             ELSE SweepStrategies(
                      [st1 EXCEPT !.strategies = RepoUpdateStrategy(@, updated_strategy)],
                      signals, Tail(list), now)

\* execute_strategies
ExecuteStrategies(coll, signals, now) ==
    SweepStrategies([strategies |-> coll, evaluated |-> << >>, placed |-> << >>,
                     result |-> Ok],
                    signals, GetActiveStrategies(coll), now)

\* the orders placed, recorded under the trigger that placed them
RECURSIVE RecordPlaced(_, _, _)
RecordPlaced(log, placed, kind) ==
    IF placed = << >> THEN log
    ELSE RecordPlaced([log EXCEPT ![Head(placed)] = Append(@, kind)], Tail(placed), kind)

EvalInit ==
    /\ market_signal = [pair \in Pairs |-> "None"]
    /\ trigger = NoTrigger
    /\ triggers = 0
    /\ evaluated = << >>
    /\ placed_orders = [pair \in Pairs |-> << >>]
    /\ eresult = NoResult
    /\ signals_fired = << >>

\* The price listener received a tick for symbol and ran process_price_update.
PriceTick ==
    /\ triggers < MaxTriggers
    /\ \E symbol \in subscriptions :
          \E st \in {ProcessPriceUpdate(strategies, Registry, market_signal, symbol,
                                        triggers + 1)} :
              /\ strategies' = st.strategies
              /\ strategy_cache' = st.reg.strategy_cache
              /\ evaluated' = st.evaluated
              /\ placed_orders' = RecordPlaced(placed_orders, st.placed, "tick")
              /\ eresult' = st.result
              /\ trigger' = [kind |-> "tick", symbol |-> symbol]
    /\ triggers' = triggers + 1
    /\ UNCHANGED << ledgerVars, calls, nextStrategyId, active_strategies, subscriptions,
                    unsubscribe_calls, sresult, hubVars, market_signal, signals_fired,
                    signalVars, engineVars >>

\* The scheduled task of main ran execute_strategies.
TimerSweep ==
    /\ triggers < MaxTriggers
    /\ \E st \in {ExecuteStrategies(strategies, market_signal, triggers + 1)} :
          /\ strategies' = st.strategies
          /\ evaluated' = st.evaluated
          /\ placed_orders' = RecordPlaced(placed_orders, st.placed, "timer")
          /\ eresult' = st.result
    /\ trigger' = [kind |-> "timer", symbol |-> ""]
    /\ triggers' = triggers + 1
    /\ UNCHANGED << ledgerVars, calls, nextStrategyId, active_strategies, strategy_cache,
                    subscriptions, unsubscribe_calls, sresult, hubVars, market_signal, signals_fired,
                    signalVars, engineVars >>

\* the symbol of the strategies that fire
SignalSymbols == {"BTC-USDT"}

\* risk_parameters.max_position_size of the strategies that fire
MaxPositionSizes == {F(2)}

\* the quantity is the position size times the price
PlaceOrderRequest_Times(user_id, symbol, side, max_position_size, current_price) ==
    [user_id |-> user_id, symbol |-> symbol, order_type |-> "Market", side |-> side,
     quantity |-> RMul(max_position_size, current_price)]

\* place_order: the CreateOrderRequest built from the signal
PlaceOrderRequest(user_id, symbol, side, max_position_size, current_price) ==
    LET position_size == max_position_size
        quantity == RDiv(position_size, current_price)
    IN  [user_id |-> user_id, symbol |-> symbol, order_type |-> "Market", side |-> side,
         quantity |-> quantity]

\* place_order, from the signal to the return of get_ticker_price inside create_order:
\* the price is read, the balance is read and not used, the request is built and
\* create_order is entered, where the price is read again.
PlaceOrder(t) ==
    /\ pc[t] = "idle"
    /\ calls < MaxCalls
    /\ \E u \in Traders, s \in SignalSymbols, sd \in Sides, size \in MaxPositionSizes,
          current_price \in Prices, price \in Prices :
          LET user_balance == GetUserBalance(users, u)
              rq == PlaceOrderRequest(u, s, sd, size, current_price)
          IN  /\ req' = [req EXCEPT ![t] = rq]
              /\ loc' = [loc EXCEPT ![t] = [NoLocals EXCEPT !.price = price,
                                               !.order_cost = RMul(price, rq.quantity)]]
              /\ signals_fired' =
                    Append(signals_fired,
                           [user_id |-> u, symbol |-> s, side |-> sd,
                            max_position_size |-> size, current_price |-> current_price,
                            request |-> rq])
    /\ pc' = [pc EXCEPT ![t] = "get_user_balance"]
    /\ result' = [result EXCEPT ![t] = NoResult]
    /\ wlog' = [wlog EXCEPT ![t] = << >>]
    /\ calls' = calls + 1
    /\ UNCHANGED << dbVars, hist, registryVars, hubVars, market_signal, trigger, triggers,
                    evaluated, placed_orders, eresult, signalVars, engineVars >>

\* the orders of fired signals run through create_order
PlaceOrderNext ==
    \E t \in Tasks :
        \/ PlaceOrder(t)
        \/ ReadBalance(t)
        \/ BuyUpdateBalance(t)
        \/ BuyGetPosition(t)
        \/ BuyPosition(t)
        \/ SellGetPosition(t)
        \/ SellUpdateBalance(t)
        \/ SellPosition(t)
        \/ SaveOrder(t)
        \/ Return(t)

EvalNext ==
    \/ PriceTick
    \/ TimerSweep

\* ------------------------------------------------------------ signal rules
\* Longest price series and RSI series handed to a rule.
MaxSeries == 3

\* prices[a..=b].iter().sum()
RECURSIVE SumRange(_, _, _)
SumRange(prices, a, b) ==
    IF a > b THEN F(0) ELSE RAdd(prices[a], SumRange(prices, a + 1, b))

\* the window of each average starts one price late and is cut at the end
CalculateSma_LateWindow(prices, period) ==
    IF Len(prices) < period THEN << >>
    ELSE [i \in 1..(Len(prices) - period + 1) |->
             RDiv(SumRange(prices, i + 1, IF i + period - 1 < Len(prices)
                                          THEN i + period ELSE Len(prices)),
                  F(period))]

\* MovingAverageIndicator::calculate_sma (period >= 1)
CalculateSma(prices, period) ==
    IF Len(prices) < period THEN << >>
    ELSE [i \in 1..(Len(prices) - period + 1) |->
             RDiv(SumRange(prices, i, i + period - 1), F(period))]

\* the crossover tests with the equal previous values left out
MaCrossoverSignal_Strict(fast_ma, slow_ma) ==
    IF Len(fast_ma) < 2 \/ Len(slow_ma) < 2 THEN "None"
    ELSE LET current_fast == fast_ma[Len(fast_ma)]
             prev_fast == fast_ma[Len(fast_ma) - 1]
             current_slow == slow_ma[Len(slow_ma)]
             prev_slow == slow_ma[Len(slow_ma) - 1]
         IN  IF RLt(prev_fast, prev_slow) /\ RGt(current_fast, current_slow) THEN "Buy"
             ELSE IF RGt(prev_fast, prev_slow) /\ RLt(current_fast, current_slow)
             THEN "Sell"
             ELSE "None"

\* a Buy whenever the fast average is above the slow one
MaCrossoverSignal_Level(fast_ma, slow_ma) ==
    IF Len(fast_ma) < 2 \/ Len(slow_ma) < 2 THEN "None"
    ELSE LET current_fast == fast_ma[Len(fast_ma)]
             prev_fast == fast_ma[Len(fast_ma) - 1]
             current_slow == slow_ma[Len(slow_ma)]
             prev_slow == slow_ma[Len(slow_ma) - 1]
         IN  IF RGt(current_fast, current_slow) THEN "Buy"
             ELSE IF RGe(prev_fast, prev_slow) /\ RLt(current_fast, current_slow)
             THEN "Sell"
             ELSE "None"

\* execute_ma_crossover_strategy, from the averages to the side of the order placed
MaCrossoverSignal(fast_ma, slow_ma) ==
    IF Len(fast_ma) < 2 \/ Len(slow_ma) < 2 THEN "None"
    ELSE LET current_fast == fast_ma[Len(fast_ma)]
             prev_fast == fast_ma[Len(fast_ma) - 1]
             current_slow == slow_ma[Len(slow_ma)]
             prev_slow == slow_ma[Len(slow_ma) - 1]
         IN  IF RLe(prev_fast, prev_slow) /\ RGt(current_fast, current_slow) THEN "Buy"
             ELSE IF RGe(prev_fast, prev_slow) /\ RLt(current_fast, current_slow)
             THEN "Sell"
             ELSE "None"

\* execute_rsi_strategy, from the RSI values to the side of the order placed
RsiSignal(rsi_values, oversold_threshold, overbought_threshold) ==
    IF Len(rsi_values) < 2 THEN "None"
    ELSE LET current_rsi == rsi_values[Len(rsi_values)]
             previous_rsi == rsi_values[Len(rsi_values) - 1]
         IN  IF /\ RLt(previous_rsi, oversold_threshold)
                /\ RGt(current_rsi, oversold_threshold)
             THEN "Buy"
             ELSE IF /\ RGt(previous_rsi, overbought_threshold)
                     /\ RLt(current_rsi, overbought_threshold)
             THEN "Sell"
             ELSE "None"

\* Longest price series handed to an indicator.
MaxPrices == 4

\* MovingAverageIndicator::calculate_ema, from index i on (period >= 1)
RECURSIVE EmaFrom(_, _, _, _)
EmaFrom(prices, i, last, multiplier) ==
    IF i > Len(prices) THEN << >>
    ELSE LET ema == RAdd(RMul(RSub(prices[i], last), multiplier), last)
         IN  << ema >> \o EmaFrom(prices, i + 1, ema, multiplier)

\* a series shorter than the period is averaged as far as it goes
CalculateEma_ShortSeries(prices, period) ==
    IF prices = << >> THEN << >>
    ELSE IF Len(prices) < period
    THEN << RDiv(SumRange(prices, 1, Len(prices)), F(Len(prices))) >>
    ELSE LET multiplier == RDiv(F(2), F(period + 1))
             sma == RDiv(SumRange(prices, 1, period), F(period))
         IN  << sma >> \o EmaFrom(prices, period + 1, sma, multiplier)

\* MovingAverageIndicator::calculate_ema (period >= 1)
CalculateEma(prices, period) ==
    IF Len(prices) < period THEN << >>
    ELSE LET multiplier == RDiv(F(2), F(period + 1))
             sma == RDiv(SumRange(prices, 1, period), F(period))
         IN  << sma >> \o EmaFrom(prices, period + 1, sma, multiplier)

\* avg_loss.max(0.00001)
MinAvgLoss == [n |-> 1, d |-> 100000]

RMax(x, y) == IF RLt(x, y) THEN y ELSE x

\* 100.0 - (100.0 / (1.0 + avg_gain / avg_loss.max(0.00001)))
RsiValue(avg_gain, avg_loss) ==
    RSub(F(100), RDiv(F(100), RAdd(F(1), RDiv(avg_gain, RMax(avg_loss, MinAvgLoss)))))

\* RSIIndicator::calculate, the smoothed values from change i on
RECURSIVE RsiFrom(_, _, _, _, _, _)
RsiFrom(gains, losses, i, avg_gain, avg_loss, period) ==
    IF i > Len(gains) THEN << >>
    ELSE LET gain == RDiv(RAdd(RMul(avg_gain, F(period - 1)), gains[i]), F(period))
             loss == RDiv(RAdd(RMul(avg_loss, F(period - 1)), losses[i]), F(period))
         IN  << RsiValue(gain, loss) >> \o RsiFrom(gains, losses, i + 1, gain, loss, period)

\* RSIIndicator::calculate (period >= 1)
CalculateRsi(prices, period) ==
    IF Len(prices) <= period THEN << >>
    ELSE LET change(i) == RSub(prices[i + 1], prices[i])
             gains == [i \in 1..(Len(prices) - 1) |->
                          IF RGt(change(i), F(0)) THEN change(i) ELSE F(0)]
             losses == [i \in 1..(Len(prices) - 1) |->
                          IF RLt(change(i), F(0)) THEN RSub(F(0), change(i)) ELSE F(0)]
             first_avg_gain == RDiv(SumRange(gains, 1, period), F(period))
             first_avg_loss == RDiv(SumRange(losses, 1, period), F(period))
         IN  << RsiValue(first_avg_gain, first_avg_loss) >>
                 \o RsiFrom(gains, losses, period + 1, first_avg_gain, first_avg_loss, period)

\* &values[len_diff..]
SliceFrom(values, len_diff) == [i \in 1..(Len(values) - len_diff) |-> values[i + len_diff]]

MacdEmpty == [panic |-> FALSE, macd_line |-> << >>, signal_line |-> << >>, histogram |-> << >>]

\* fast_ema.len() - slow_ema.len() below zero: the subtraction overflows, or the slice
\* that starts at the wrapped difference is out of range; the thread panics either way
MacdPanic == [panic |-> TRUE, macd_line |-> << >>, signal_line |-> << >>, histogram |-> << >>]

\* MACDIndicator::calculate (periods >= 1)
CalculateMacd(prices, fast_period, slow_period, signal_period) ==
    LET fast_ema == CalculateEma(prices, fast_period)
        slow_ema == CalculateEma(prices, slow_period)
    IN  IF fast_ema = << >> \/ slow_ema = << >> THEN MacdEmpty
        ELSE IF Len(fast_ema) < Len(slow_ema) THEN MacdPanic
        ELSE LET adjusted_fast_ema == SliceFrom(fast_ema, Len(fast_ema) - Len(slow_ema))
                 macd_line == [i \in 1..Len(slow_ema) |->
                                  RSub(adjusted_fast_ema[i], slow_ema[i])]
                 signal_line == CalculateEma(macd_line, signal_period)
                 adjusted_macd_line ==
                     SliceFrom(macd_line, Len(macd_line) - Len(signal_line))
                 histogram == [i \in 1..Len(signal_line) |->
                                  RSub(adjusted_macd_line[i], signal_line[i])]
             IN  [panic |-> FALSE, macd_line |-> macd_line, signal_line |-> signal_line,
                  histogram |-> histogram]

\* the MACD tests applied to a single computed value
MacdSignal_OneValue(macd_line, signal_line) ==
    IF Len(macd_line) < 1 \/ Len(signal_line) < 1 THEN "None"
    ELSE LET current_macd == macd_line[Len(macd_line)]
             prev_macd == macd_line[1]
             current_signal == signal_line[Len(signal_line)]
             prev_signal == signal_line[1]
         IN  IF RLe(prev_macd, prev_signal) /\ RGe(current_macd, current_signal) THEN "Buy"
             ELSE IF RGe(prev_macd, prev_signal) /\ RLt(current_macd, current_signal)
             THEN "Sell"
             ELSE "None"

\* execute_macd_strategy, from the two lines to the side of the order placed
MacdSignal(macd_line, signal_line) ==
    IF Len(macd_line) < 2 \/ Len(signal_line) < 2 THEN "None"
    ELSE LET current_macd == macd_line[Len(macd_line)]
             prev_macd == macd_line[Len(macd_line) - 1]
             current_signal == signal_line[Len(signal_line)]
             prev_signal == signal_line[Len(signal_line) - 1]
         IN  IF RLe(prev_macd, prev_signal) /\ RGt(current_macd, current_signal) THEN "Buy"
             ELSE IF RGe(prev_macd, prev_signal) /\ RLt(current_macd, current_signal)
             THEN "Sell"
             ELSE "None"

SeriesOver(values) == UNION {[1..n -> values] : n \in 0..MaxSeries}

PriceSeries == UNION {[1..n -> {F(1), F(2), F(3)}] : n \in 0..MaxPrices}

\* closing prices of get_historical_prices, with the periods of the strategy
MaInputs ==
    [rule : {"ma"}, price_data : SeriesOver({F(1), F(2), F(3)}),
     fast_period : {1, 2}, slow_period : {2, 3}]

\* RSI values, with the default thresholds 30 and 70 of the strategy
RsiInputs ==
    [rule : {"rsi"}, rsi_values : SeriesOver({F(20), F(30), F(50), F(70), F(80)}),
     oversold_threshold : {F(30)}, overbought_threshold : {F(70)}]

\* Longest pair of average series evaluated step by step.
MaxSteps == 4

\* a fast and a slow average series of one length, one more value of each per evaluation
CrossoverInputs ==
    UNION {[rule : {"ma_steps"}, fast_ma : [1..n -> {F(1), F(2), F(3), F(4)}],
            slow_ma : [1..n -> {F(2), F(3)}]] : n \in 0..MaxSteps}

\* closing prices, with the three periods of a MACD strategy
MacdInputs ==
    [rule : {"macd"}, price_data : PriceSeries,
     fast_period : {1, 2}, slow_period : {1, 2, 3}, signal_period : {1, 2}]

\* a price series and the periods the indicators are called with
IndicatorInputs ==
    [prices : PriceSeries, period : 1..(MaxPrices + 1),
     fast_period : {1, 2, 3}, slow_period : {1, 2, 3}, signal_period : {1, 2}]

NoSignalInput == [rule |-> "none"]

NoIndicatorInput == [prices |-> << >>, period |-> 1, fast_period |-> 1,
                     slow_period |-> 1, signal_period |-> 1]

NotCalculated == [calculated |-> FALSE]

SignalInit ==
    /\ signal_input = NoSignalInput
    /\ signal_output = "NotEvaluated"
    /\ indicator_input = NoIndicatorInput
    /\ indicator_output = NotCalculated
    /\ signal_history = << >>

ExecuteMaCrossoverStrategy ==
    /\ signal_input.rule = "ma"
    /\ signal_output = "NotEvaluated"
    /\ signal_output' =
          MaCrossoverSignal(CalculateSma(signal_input.price_data, signal_input.fast_period),
                            CalculateSma(signal_input.price_data, signal_input.slow_period))
    /\ UNCHANGED << ledgerVars, calls, registryVars, hubVars, evalVars, engineVars, signal_input,
                    indicator_input, indicator_output, signal_history >>

ExecuteRsiStrategy ==
    /\ signal_input.rule = "rsi"
    /\ signal_output = "NotEvaluated"
    /\ signal_output' = RsiSignal(signal_input.rsi_values, signal_input.oversold_threshold,
                                  signal_input.overbought_threshold)
    /\ UNCHANGED << ledgerVars, calls, registryVars, hubVars, evalVars, engineVars, signal_input,
                    indicator_input, indicator_output, signal_history >>

\* execute_macd_strategy: a panic of the indicator ends the evaluation
ExecuteMacdStrategy ==
    /\ signal_input.rule = "macd"
    /\ signal_output = "NotEvaluated"
    /\ \E r \in {CalculateMacd(signal_input.price_data, signal_input.fast_period,
                               signal_input.slow_period, signal_input.signal_period)} :
          signal_output' = IF r.panic THEN "Panic"
                           ELSE MacdSignal(r.macd_line, r.signal_line)
    /\ UNCHANGED << ledgerVars, calls, registryVars, hubVars, evalVars, engineVars, signal_input,
                    indicator_input, indicator_output, signal_history >>

\* execute_ma_crossover_strategy, run once more with one more value of each average
EvaluateNextStep ==
    /\ signal_input.rule = "ma_steps"
    /\ Len(signal_history) < Len(signal_input.fast_ma)
    /\ LET k == Len(signal_history) + 1
       IN  signal_history' =
              Append(signal_history,
                     MaCrossoverSignal(SubSeq(signal_input.fast_ma, 1, k),
                                       SubSeq(signal_input.slow_ma, 1, k)))
    /\ UNCHANGED << ledgerVars, calls, registryVars, hubVars, evalVars, engineVars, signal_input,
                    signal_output, indicator_input, indicator_output >>

CrossoverNext == EvaluateNextStep

\* the three indicators applied to one price series
Calculate ==
    /\ ~indicator_output.calculated
    /\ indicator_output' =
          [calculated |-> TRUE,
           sma |-> CalculateSma(indicator_input.prices, indicator_input.period),
           ema |-> CalculateEma(indicator_input.prices, indicator_input.period),
           rsi |-> CalculateRsi(indicator_input.prices, indicator_input.period),
           macd |-> CalculateMacd(indicator_input.prices, indicator_input.fast_period,
                                  indicator_input.slow_period,
                                  indicator_input.signal_period)]
    /\ UNCHANGED << ledgerVars, calls, registryVars, hubVars, evalVars, engineVars, signal_input,
                    signal_output, indicator_input, signal_history >>

IndicatorNext == Calculate

SignalNext ==
    \/ ExecuteMacdStrategy
    \/ ExecuteMaCrossoverStrategy
    \/ ExecuteRsiStrategy

\* ------------------------------------------------------------ specifications
\* ------------------------------------------------------------ engine: state
\* No evaluation call is in progress.
NoEvaluation ==
    [pc |-> "idle", kind |-> "none", symbol |-> "", ids |-> << >>, list |-> << >>,
     strategy |-> None]

\* active_strategies, strategy_cache and MarketService.subscriptions
Locks == {"active_strategies", "strategy_cache", "subscriptions"}

\* the tasks that take the locks: two request handlers, the price listener and the
\* market data stream
LockTasks == {"handler1", "handler2", "listener", "stream"}

\* RwLock::new: no holder, nobody queued
FreeLock == [writer |-> None, readers |-> {}, queue |-> << >>]

EngineInit ==
    /\ inflight = NoEvaluation
    /\ background = EmptyRegistry
    /\ locks = [l \in Locks |-> FreeLock]
    /\ programs = [t \in LockTasks |-> << >>]

\* ------------------------------------------------------------ engine: evaluation in steps
\* Everything an evaluation step leaves alone, the database and registry aside.
EvaluationFrame ==
    UNCHANGED << ledgerVars, calls, nextStrategyId, unsubscribe_calls, sresult, hubVars,
                 market_signal, signals_fired, signalVars, background, locks, programs >>

\* the strategy an evaluation writes back: its own copy with last_executed_at set
UpdatedStrategy(strategy, now) == [strategy EXCEPT !.last_executed_at = Some(now)]

\* process_price_update for a tick of a subscribed symbol, up to the clone of the list
\* of ids (the read lock on active_strategies is released at the end of the block)
TickBegin ==
    /\ inflight.pc = "idle"
    /\ triggers < MaxTriggers
    /\ \E symbol \in subscriptions :
          /\ trigger' = [kind |-> "tick", symbol |-> symbol]
          /\ IF active_strategies[symbol] = None
             THEN inflight' = NoEvaluation /\ eresult' = Ok
             ELSE /\ inflight' = [NoEvaluation EXCEPT
                                     !.pc = "lookup", !.kind = "tick", !.symbol = symbol,
                                     !.ids = Unwrap(active_strategies[symbol])]
                  /\ eresult' = NoResult
    /\ triggers' = triggers + 1
    /\ evaluated' = << >>
    /\ UNCHANGED << strategies, active_strategies, strategy_cache, subscriptions,
                    placed_orders >>
    /\ EvaluationFrame

\* the head of the loop: get_cached_strategy for the next id, or the return
TickLookup ==
    /\ inflight.pc = "lookup"
    /\ IF inflight.ids = << >>
       THEN inflight' = NoEvaluation /\ eresult' = Ok
       ELSE /\ inflight' =
                 IF strategy_cache[Head(inflight.ids)] = None
                 THEN [inflight EXCEPT !.ids = Tail(@)]
                 ELSE [inflight EXCEPT !.pc = "evaluate",
                                       !.strategy = strategy_cache[Head(inflight.ids)]]
            /\ UNCHANGED eresult
    /\ UNCHANGED << strategies, active_strategies, strategy_cache, subscriptions,
                    trigger, triggers, evaluated, placed_orders >>
    /\ EvaluationFrame

\* execute_*_strategy on the copy taken from the cache; an error ends the call
TickEvaluate ==
    /\ inflight.pc = "evaluate"
    /\ \E e \in {ExecuteStrategy(market_signal, Head(inflight.ids), inflight.symbol)} :
          /\ evaluated' = Append(evaluated, << Head(inflight.ids), inflight.symbol >>)
          /\ placed_orders' = RecordPlaced(placed_orders, e.placed, "tick")
          /\ IF e.result # Ok
             THEN inflight' = NoEvaluation /\ eresult' = e.result
             ELSE inflight' = [inflight EXCEPT !.pc = "write_back"] /\ UNCHANGED eresult
    /\ UNCHANGED << strategies, active_strategies, strategy_cache, subscriptions,
                    trigger, triggers >>
    /\ EvaluationFrame

\* repository.update_strategy(&updated_strategy), after a tick and after a sweep
WriteBack ==
    /\ inflight.pc = "write_back"
    /\ strategies' = RepoUpdateStrategy(strategies,
                         UpdatedStrategy(Unwrap(inflight.strategy), triggers))
    /\ inflight' = IF inflight.kind = "tick"
                   THEN [inflight EXCEPT !.pc = "recache"]
                   ELSE [inflight EXCEPT !.pc = "sweep", !.strategy = None]
    /\ UNCHANGED << active_strategies, strategy_cache, subscriptions, trigger, triggers,
                    evaluated, placed_orders, eresult >>
    /\ EvaluationFrame

\* the copy is cached, and its symbols are listed and subscribed again
TickRecache_Rearms ==
    /\ inflight.pc = "recache"
    /\ \E reg \in {AddToSymbols(CacheStrategy(Registry,
                       UpdatedStrategy(Unwrap(inflight.strategy), triggers)),
                       Unwrap(inflight.strategy).symbols, Head(inflight.ids))} :
          /\ active_strategies' = reg.active_strategies
          /\ strategy_cache' = reg.strategy_cache
          /\ subscriptions' = reg.subscriptions
    /\ inflight' = [inflight EXCEPT !.pc = "lookup", !.ids = Tail(@), !.strategy = None]
    /\ UNCHANGED << strategies, trigger, triggers, evaluated, placed_orders, eresult >>
    /\ EvaluationFrame

\* cache_strategy(updated_strategy), then the next id
TickRecache ==
    /\ inflight.pc = "recache"
    /\ \E reg \in {CacheStrategy(Registry,
                       UpdatedStrategy(Unwrap(inflight.strategy), triggers))} :
          /\ active_strategies' = reg.active_strategies
          /\ strategy_cache' = reg.strategy_cache
          /\ subscriptions' = reg.subscriptions
    /\ inflight' = [inflight EXCEPT !.pc = "lookup", !.ids = Tail(@), !.strategy = None]
    /\ UNCHANGED << strategies, trigger, triggers, evaluated, placed_orders, eresult >>
    /\ EvaluationFrame

\* execute_strategies, up to the list read by get_active_strategies
SweepBegin ==
    /\ inflight.pc = "idle"
    /\ triggers < MaxTriggers
    /\ inflight' = [NoEvaluation EXCEPT !.pc = "sweep", !.kind = "timer",
                                        !.list = GetActiveStrategies(strategies)]
    /\ trigger' = [kind |-> "timer", symbol |-> ""]
    /\ triggers' = triggers + 1
    /\ evaluated' = << >>
    /\ eresult' = NoResult
    /\ UNCHANGED << strategies, active_strategies, strategy_cache, subscriptions,
                    placed_orders >>
    /\ EvaluationFrame

\* the next strategy of the list is executed on each of its symbols, or the return
SweepEvaluate ==
    /\ inflight.pc = "sweep"
    /\ IF inflight.list = << >>
       THEN /\ inflight' = NoEvaluation
            /\ eresult' = Ok
            /\ UNCHANGED << evaluated, placed_orders >>
       ELSE \E st \in {SweepSymbols([evaluated |-> evaluated, placed |-> << >>,
                                     result |-> Ok],
                                    market_signal, Head(inflight.list),
                                    Head(inflight.list).symbols)} :
               /\ evaluated' = st.evaluated
               /\ placed_orders' = RecordPlaced(placed_orders, st.placed, "timer")
               /\ IF st.result # Ok
                  THEN inflight' = NoEvaluation /\ eresult' = st.result
                  ELSE /\ inflight' = [inflight EXCEPT
                                          !.pc = "write_back", !.list = Tail(@),
                                          !.strategy = Some(Head(inflight.list))]
                       /\ UNCHANGED eresult
    /\ UNCHANGED << strategies, active_strategies, strategy_cache, subscriptions,
                    trigger, triggers >>
    /\ EvaluationFrame

\* a step of the evaluation call in progress
EvaluationStep ==
    \/ TickLookup
    \/ TickEvaluate
    \/ WriteBack
    \/ TickRecache
    \/ SweepEvaluate

\* the update requests of the interleavings: pause, move to ETH-USDT, change the
\* parameters
InflightRequests ==
    [status : {None, Some("Paused")},
     symbols : {None, Some(<< "ETH-USDT" >>)},
     parameters : {None, Some("p2")}]

\* delete_strategy runs between the steps of evaluations
DeleteNext ==
    \/ DeleteStrategy
    \/ TickBegin
    \/ SweepBegin
    \/ EvaluationStep

\* update_strategy by the owner of strategy 1 runs between the steps of an evaluation
InflightNext ==
    \/ UpdateStrategyBy({"u1"}, {1}, InflightRequests)
    \/ TickBegin
    \/ SweepBegin
    \/ EvaluationStep

\* ------------------------------------------------------------ engine: the two services
\* The price listener of the StrategyService built in main received a tick of the
\* MarketService built in main and ran process_price_update on that service's
\* registry; the database is the one database.
BackgroundTick ==
    /\ triggers < MaxTriggers
    /\ \E symbol \in background.subscriptions :
          \E st \in {ProcessPriceUpdate(strategies, background, market_signal, symbol,
                                        triggers + 1)} :
              /\ strategies' = st.strategies
              /\ background' = st.reg
              /\ evaluated' = st.evaluated
              /\ placed_orders' = RecordPlaced(placed_orders, st.placed, "tick")
              /\ eresult' = st.result
              /\ trigger' = [kind |-> "tick", symbol |-> symbol]
    /\ triggers' = triggers + 1
    /\ UNCHANGED << ledgerVars, calls, nextStrategyId, active_strategies, strategy_cache,
                    subscriptions, unsubscribe_calls, sresult, hubVars, market_signal,
                    signals_fired, signalVars, inflight, locks, programs >>

\* the request handlers and the listener of the service built in strategy_routes, the
\* listener and the timer task of the service built in main
ProcessNext ==
    \/ UpdateStrategyBy({"u1"}, {1}, InflightRequests)
    \/ PriceTick
    \/ BackgroundTick
    \/ TimerSweep

\* ------------------------------------------------------------ engine: the locks
\* What a call does to the locks, in program order.
Acquire(lock, mode) == [op |-> "acquire", lock |-> lock, mode |-> mode]

Release(lock) == [op |-> "release", lock |-> lock, mode |-> ""]

\* an await that takes no lock: the exchange, the indicators, the order placement
Await(what) == [op |-> "await", lock |-> what, mode |-> ""]

\* add_strategy_to_symbol
AddStrategyToSymbolLocks ==
    << Acquire("active_strategies", "write"), Release("active_strategies") >>

\* subscribe_to_symbol takes the symbol index while it holds the subscriptions
SubscribeToSymbolLocks_ThenIndex ==
    << Acquire("subscriptions", "write"), Acquire("active_strategies", "write"),
       Release("active_strategies"), Release("subscriptions") >>

\* subscribe_to_symbol
SubscribeToSymbolLocks == << Acquire("subscriptions", "write"), Release("subscriptions") >>

\* unsubscribe_from_symbol
UnsubscribeFromSymbolLocks ==
    << Acquire("subscriptions", "write"), Release("subscriptions") >>

\* remove_strategy_from_symbol: the write guard on the index is held until the end,
\* across the unsubscribe call made when the list became empty
RemoveStrategyFromSymbolLocks(emptied) ==
    << Acquire("active_strategies", "write") >>
    \o (IF emptied THEN UnsubscribeFromSymbolLocks ELSE << >>)
    \o << Release("active_strategies") >>

\* cache_strategy, and the cache.remove of update_strategy_status
CacheWriteLocks == << Acquire("strategy_cache", "write"), Release("strategy_cache") >>

\* get_cached_strategy
GetCachedStrategyLocks ==
    << Acquire("strategy_cache", "read"), Release("strategy_cache") >>

\* update_strategy_status, Active to not Active, for a strategy of one symbol
DeactivateLocks(emptied) == RemoveStrategyFromSymbolLocks(emptied) \o CacheWriteLocks

\* update_strategy_status, not Active to Active, and load_active_strategies, for a
\* strategy of one symbol
ActivateLocks == CacheWriteLocks \o SubscribeToSymbolLocks \o AddStrategyToSymbolLocks

\* update_strategy, one symbol replaced by another while Active
ReconcileLocks(emptied) ==
    RemoveStrategyFromSymbolLocks(emptied) \o SubscribeToSymbolLocks
    \o AddStrategyToSymbolLocks \o CacheWriteLocks

\* the price listener keeps the read guard on the index while it evaluates
ProcessPriceUpdateLocks_HoldsIndex ==
    << Acquire("active_strategies", "read") >>
    \o GetCachedStrategyLocks \o << Await("evaluate") >> \o CacheWriteLocks
    \o << Release("active_strategies") >>

\* process_price_update for a symbol with one listed strategy: the list is cloned
\* inside a block, the strategy is cloned from the cache, then the evaluation runs
ProcessPriceUpdateLocks ==
    << Acquire("active_strategies", "read"), Release("active_strategies") >>
    \o GetCachedStrategyLocks \o << Await("evaluate") >> \o CacheWriteLocks

\* one round of start_market_data_stream: the read guard on the subscriptions is held
\* while the prices are fetched and sent
MarketDataStreamLocks ==
    << Acquire("subscriptions", "read"), Await("get_ticker_price"),
       Release("subscriptions") >>

\* the calls a task makes: the listener handles ticks, the stream publishes, one
\* handler deactivates and reconciles, the other activates and deactivates
ProgramsOf(t) ==
    IF t = "listener" THEN {ProcessPriceUpdateLocks}
    ELSE IF t = "stream" THEN {MarketDataStreamLocks}
    ELSE IF t = "handler1"
    THEN {DeactivateLocks(e) : e \in BOOLEAN} \cup {ReconcileLocks(TRUE)}
    ELSE {ActivateLocks, DeactivateLocks(TRUE)}

\* t waits in the queue of the lock
Queued(t, lock) == \E i \in 1..Len(locks[lock].queue) : locks[lock].queue[i][1] = t

\* t holds the lock
Holds(t, lock) == locks[lock].writer = Some(t) \/ t \in locks[lock].readers

\* tokio's RwLock grants in arrival order: the request at the head of the queue is
\* granted when no writer holds the lock and, for a write, no reader does
Grantable(t, lock) ==
    /\ locks[lock].queue # << >>
    /\ Head(locks[lock].queue)[1] = t
    /\ locks[lock].writer = None
    /\ Head(locks[lock].queue)[2] = "write" => locks[lock].readers = {}

LockFrame ==
    UNCHANGED << ledgerVars, calls, registryVars, hubVars, evalVars, signalVars,
                 inflight, background >>

\* a task begins one of its calls
LockCall(t) ==
    /\ programs[t] = << >>
    /\ \E p \in ProgramsOf(t) : programs' = [programs EXCEPT ![t] = p]
    /\ UNCHANGED locks
    /\ LockFrame

\* the lock with the request of t granted
Granted(lock, t, mode) ==
    [writer |-> IF mode = "write" THEN Some(t) ELSE None,
     readers |-> IF mode = "read" THEN locks[lock].readers \cup {t}
                 ELSE locks[lock].readers,
     queue |-> locks[lock].queue]

\* nobody waits and the holders allow the mode
Available(lock, mode) ==
    /\ locks[lock].queue = << >>
    /\ locks[lock].writer = None
    /\ mode = "write" => locks[lock].readers = {}

\* lock.read().await and lock.write().await: the guard is taken at once when the lock
\* is available, otherwise the request joins the queue
LockRequest(t) ==
    /\ programs[t] # << >>
    /\ Head(programs[t]).op = "acquire"
    /\ ~Queued(t, Head(programs[t]).lock)
    /\ \E lock \in {Head(programs[t]).lock}, mode \in {Head(programs[t]).mode} :
          IF Available(lock, mode)
          THEN /\ locks' = [locks EXCEPT ![lock] = Granted(lock, t, mode)]
               /\ programs' = [programs EXCEPT ![t] = Tail(@)]
          ELSE /\ locks' = [locks EXCEPT ![lock].queue = Append(@, << t, mode >>)]
               /\ UNCHANGED programs
    /\ LockFrame

\* the queued request is granted and the call goes on
LockGrant(t) ==
    /\ programs[t] # << >>
    /\ Head(programs[t]).op = "acquire"
    /\ Grantable(t, Head(programs[t]).lock)
    /\ \E lock \in {Head(programs[t]).lock} :
          locks' = [locks EXCEPT ![lock] =
                       [Granted(lock, t, Head(programs[t]).mode)
                           EXCEPT !.queue = Tail(@)]]
    /\ programs' = [programs EXCEPT ![t] = Tail(@)]
    /\ LockFrame

\* the guard is dropped
LockRelease(t) ==
    /\ programs[t] # << >>
    /\ Head(programs[t]).op = "release"
    /\ locks' = [locks EXCEPT ![Head(programs[t]).lock] =
                    [writer |-> IF @.writer = Some(t) THEN None ELSE @.writer,
                     readers |-> @.readers \ {t},
                     queue |-> @.queue]]
    /\ programs' = [programs EXCEPT ![t] = Tail(@)]
    /\ LockFrame

\* an await that takes no lock returns
LockAwait(t) ==
    /\ programs[t] # << >>
    /\ Head(programs[t]).op = "await"
    /\ programs' = [programs EXCEPT ![t] = Tail(@)]
    /\ UNCHANGED locks
    /\ LockFrame

\* a step of the call of t that is under way
LockStep(t) == LockRequest(t) \/ LockGrant(t) \/ LockRelease(t) \/ LockAwait(t)

LocksNext == \E t \in LockTasks : LockCall(t) \/ LockStep(t)

Init ==
    LedgerInit /\ RegistryInit /\ HubInit /\ EvalInit /\ SignalInit /\ EngineInit

Next == LedgerNext

\* the position ledger under concurrent requests
Spec == Init /\ [][Next]_vars

\* the strategy registry under sequences of strategy calls
SpecRegistry == Init /\ [][RegistryNext]_vars

\* Stored strategies the service can start on.
StoredCollections ==
    {<< StrategyToDocument(NewStrategy(1, "u1", st1, l1, "p1")),
        StrategyToDocument(NewStrategy(2, "u1", st2, l2, "p1")) >> :
        st1 \in {"Active", "Paused"}, st2 \in {"Active", "Paused"},
        l1 \in SymbolLists, l2 \in SymbolLists}

\* The service started on stored strategies.
OwnershipStart ==
    /\ LedgerInit /\ EngineInit
    /\ \E coll \in StoredCollections : StartedOn(coll)
    /\ HubInit /\ EvalInit /\ SignalInit

\* update, get and delete calls by owners and by other users
SpecOwnership == OwnershipStart /\ [][OwnershipNext]_vars

\* The service started with one Active strategy; the listener task is spawned.
HubStart ==
    /\ LedgerInit /\ EngineInit
    /\ StartedOn(<< StrategyToDocument(NewStrategy(1, "u1", "Active",
                                                   << "BTC-USDT" >>, "p1")) >>)
    /\ HubInit /\ EvalInit /\ SignalInit

\* the price hub with its publisher and the price listener
SpecHub == HubStart /\ [][HubNext]_vars

\* The service started on stored strategies, under some market data.
EvalStart ==
    /\ LedgerInit /\ EngineInit
    /\ \E coll \in StoredCollections : StartedOn(coll)
    /\ HubInit /\ SignalInit
    /\ market_signal \in [Pairs -> EvalOutcomes]
    /\ trigger = NoTrigger
    /\ triggers = 0
    /\ evaluated = << >>
    /\ placed_orders = [pair \in Pairs |-> << >>]
    /\ eresult = NoResult
    /\ signals_fired = << >>

\* strategies 1 and 2 are Active on BTC-USDT
InflightCollection ==
    << StrategyToDocument(NewStrategy(1, "u1", "Active", << "BTC-USDT" >>, "p1")),
       StrategyToDocument(NewStrategy(2, "u1", "Active", << "BTC-USDT" >>, "p1")) >>

\* The service started on stored strategies, each of which signals a Buy.
InflightStart ==
    /\ LedgerInit /\ EngineInit
    /\ StartedOn(InflightCollection)
    /\ HubInit /\ SignalInit
    /\ market_signal = [pair \in Pairs |-> "Buy"]
    /\ trigger = NoTrigger
    /\ triggers = 0
    /\ evaluated = << >>
    /\ placed_orders = [pair \in Pairs |-> << >>]
    /\ eresult = NoResult
    /\ signals_fired = << >>

\* evaluations in steps, interleaved with strategy calls
SpecInflight == InflightStart /\ [][InflightNext]_vars

\* the listener task and the timer task are scheduled, and every await of an
\* evaluation (database, cache lock) returns
SpecInflightFair == SpecInflight /\ WF_vars(EvaluationStep)

\* evaluations in steps, interleaved with delete calls
SpecDelete == InflightStart /\ [][DeleteNext]_vars

\* The process started: main built a MarketService and a StrategyService, and
\* create_router built another MarketService and, in strategy_routes, another
\* StrategyService; each service ran load_active_strategies on the stored strategies.
ProcessStart ==
    /\ LedgerInit /\ StartedOn(InflightCollection) /\ HubInit /\ SignalInit
    /\ market_signal = [pair \in Pairs |-> "Buy"]
    /\ trigger = NoTrigger
    /\ triggers = 0
    /\ evaluated = << >>
    /\ placed_orders = [pair \in Pairs |-> << >>]
    /\ eresult = NoResult
    /\ signals_fired = << >>
    /\ inflight = NoEvaluation
    /\ background = LoadActiveStrategies(InflightCollection)
    /\ locks = [l \in Locks |-> FreeLock]
    /\ programs = [t \in LockTasks |-> << >>]

\* the running process: both services on the one database
SpecProcess == ProcessStart /\ [][ProcessNext]_vars

\* the registry and hub operations of one service on the three locks
SpecLocks == Init /\ [][LocksNext]_vars

\* every task is scheduled, and an await that takes no lock returns
SpecLocksFair == SpecLocks /\ \A t \in LockTasks : WF_vars(LockStep(t))

\* the database after u1, starting with balance 3, has bought 1 BTC-USDT at price 1
HoldingDb ==
    RunAlone([users |-> [u \in Users |-> [paper_balance_usd |-> F(3),
                                          initial_paper_balance_usd |-> F(3)]],
              positions |-> << >>, orders |-> << >>, nextId |-> 1],
             [req |-> [user_id |-> "u1", symbol |-> "BTC-USDT", order_type |-> "Market",
                       side |-> "Buy", quantity |-> F(1)],
              price |-> F(1)]).db

\* The ledger is idle and u1 holds 1 BTC-USDT.
HoldingStart ==
    /\ users = HoldingDb.users
    /\ positions = HoldingDb.positions
    /\ orders = HoldingDb.orders
    /\ nextId = HoldingDb.nextId
    /\ pc = [t \in Tasks |-> "idle"]
    /\ req = [t \in Tasks |-> NoRequest]
    /\ loc = [t \in Tasks |-> NoLocals]
    /\ result = [t \in Tasks |-> NoResult]
    /\ wlog = [t \in Tasks |-> << >>]
    /\ hist = [base |-> HoldingDb, batch |-> << >>]
    /\ calls = 0
    /\ RegistryInit /\ HubInit /\ EvalInit /\ SignalInit /\ EngineInit

\* create_order calls on a ledger with a holding
SpecHolding == HoldingStart /\ [][LedgerNext]_vars

\* the signal evaluator under price ticks and timer sweeps
SpecEval == EvalStart /\ [][EvalNext]_vars

\* An indicator series is handed to a signal rule.
SignalStart ==
    /\ LedgerInit /\ RegistryInit /\ HubInit /\ EvalInit /\ EngineInit
    /\ signal_input \in MaInputs \cup RsiInputs \cup MacdInputs
    /\ signal_output = "NotEvaluated"
    /\ indicator_input = NoIndicatorInput
    /\ indicator_output = NotCalculated
    /\ signal_history = << >>

\* the signal rules on indicator series
SpecSignal == SignalStart /\ [][SignalNext]_vars

\* signals placing orders through the ledger
SpecPlaceOrder == Init /\ [][PlaceOrderNext]_vars

\* Two average series are evaluated step by step.
CrossoverStart ==
    /\ LedgerInit /\ RegistryInit /\ HubInit /\ EvalInit /\ EngineInit
    /\ signal_input \in CrossoverInputs
    /\ signal_output = "NotEvaluated"
    /\ indicator_input = NoIndicatorInput
    /\ indicator_output = NotCalculated
    /\ signal_history = << >>

\* the crossover rule over successive evaluations
SpecCrossover == CrossoverStart /\ [][CrossoverNext]_vars

\* A price series and periods are handed to the indicators.
IndicatorStart ==
    /\ LedgerInit /\ RegistryInit /\ HubInit /\ EvalInit /\ EngineInit
    /\ signal_input = NoSignalInput
    /\ signal_output = "NotEvaluated"
    /\ indicator_input \in IndicatorInputs
    /\ indicator_output = NotCalculated
    /\ signal_history = << >>

\* the indicators on price series
SpecIndicator == IndicatorStart /\ [][IndicatorNext]_vars

\* ------------------------------------------------------------ ledger properties
IsOrderCall(t) == req[t].side \in Sides

StoredPositions(u, s) ==
    Matching(positions, LAMBDA doc : doc.user_id = u /\ doc.symbol = s)

FilledOrders(u, s, sd) ==
    Find(orders, LAMBDA doc : doc.user_id = u /\ doc.symbol = s /\ doc.side = sd)

RECURSIVE SumQuantity(_)
SumQuantity(os) ==
    IF os = << >> THEN F(0) ELSE RAdd(Head(os).quantity, SumQuantity(Tail(os)))

RECURSIVE SumCost(_)
SumCost(os) ==
    IF os = << >> THEN F(0)
    ELSE RAdd(RMul(Head(os).quantity, Unwrap(Head(os).price)), SumCost(Tail(os)))

IsPrefix(a, b) == Len(a) <= Len(b) /\ SubSeq(b, 1, Len(a)) = a

BalanceOf(db, u) == db.users[u].paper_balance_usd

\* C1: when two create_order calls of one owner have run, overlapping in any way,
\* and the ledger is idle again, the cash balance is the one that running the two
\* calls one after the other, in one of the two orders, would have left.
C1_NoLostUpdate ==
    (Idle /\ Len(hist.batch) = 2
          /\ hist.batch[1].req.user_id = hist.batch[2].req.user_id)
    => LET u == hist.batch[1].req.user_id
           ab == RunAlone(RunAlone(hist.base, hist.batch[1]).db, hist.batch[2]).db
           ba == RunAlone(RunAlone(hist.base, hist.batch[2]).db, hist.batch[1]).db
       IN  GetUserBalance(users, u) \in {BalanceOf(ab, u), BalanceOf(ba, u)}

\* C3: at most one stored position per (owner, symbol).
C3_OnePositionPerOwnerSymbol ==
    \A u \in Users, s \in Symbols : Cardinality(StoredPositions(u, s)) <= 1

\* C4: the step in which a Buy call learns the balance, when the cost of the order
\* exceeds the balance stored at that moment, ends the call with
\* InsufficientBalance, changes nothing stored, and the call has written nothing.
C4_InsufficientBalanceRejected ==
    [][\A t \in Tasks :
          (/\ pc[t] = "get_user_balance"
           /\ pc'[t] # pc[t]
           /\ req[t].side = "Buy"
           /\ RGt(RMul(loc[t].price, req[t].quantity),
                  GetUserBalance(users, req[t].user_id)))
          => /\ pc'[t] = "done"
             /\ result'[t] = InsufficientBalance
             /\ wlog'[t] = << >>
             /\ UNCHANGED dbVars]_vars

C4_Witness ==
    \E t \in Tasks : pc[t] = "done" /\ result[t] = InsufficientBalance

\* C5: the step in which a Sell call learns the position ends the call with
\* NoPosition when none is stored for the owner and symbol and with
\* InsufficientQuantity when the held quantity is less than the requested one;
\* either way nothing stored changes and the call has written nothing.
C5_SellRejected ==
    [][\A t \in Tasks :
          (/\ pc[t] = "sell_get_position"
           /\ pc'[t] # pc[t])
          => LET held == StoredPositions(req[t].user_id, req[t].symbol)
             IN  /\ held = {} =>
                        /\ pc'[t] = "done" /\ result'[t] = NoPosition
                        /\ wlog'[t] = << >> /\ UNCHANGED dbVars
                 /\ (held # {} /\ RLt(positions[First(held)].quantity, req[t].quantity)) =>
                        /\ pc'[t] = "done" /\ result'[t] = InsufficientQuantity
                        /\ wlog'[t] = << >> /\ UNCHANGED dbVars
                 /\ (held # {} /\ ~RLt(positions[First(held)].quantity, req[t].quantity)) =>
                        pc'[t] = "sell_update_balance"]_vars

C5_Witness ==
    \E t \in Tasks :
        /\ pc[t] = "done" /\ result[t] = InsufficientQuantity
        /\ req[t].quantity = F(2)
        /\ \E i \in StoredPositions(req[t].user_id, req[t].symbol) :
               positions[i].quantity = F(1)

\* C6: when the ledger is idle and only Buy orders have been filled for an owner
\* and symbol, the position found for them has the summed quantity of those orders
\* and entry_price = (sum of quantity x price) / (sum of quantity).
C6_AverageCostBasis ==
    \A u \in Users, s \in Symbols :
        LET buys == FilledOrders(u, s, "Buy")
            position_opt == GetPositionByUserAndSymbol(positions, u, s)
        IN  (Idle /\ buys # << >> /\ FilledOrders(u, s, "Sell") = << >>)
            => /\ position_opt # None
               /\ Unwrap(position_opt).quantity = SumQuantity(buys)
               /\ Unwrap(position_opt).entry_price = RDiv(SumCost(buys), SumQuantity(buys))

\* C7: a Sell of exactly the held quantity, once it has returned, has succeeded and
\* the position it sold is no longer stored; and no stored position has quantity 0.
C7_FullSellDeletes ==
    /\ \A t \in Tasks :
          (/\ pc[t] = "done" /\ req[t].side = "Sell"
           /\ loc[t].position # None
           /\ Unwrap(loc[t].position).quantity = req[t].quantity
           /\ \A o \in Tasks \ {t} : pc[o] = "idle")
          => /\ result[t] = Ok
             /\ StoredPositions(req[t].user_id, req[t].symbol) = {}
    /\ \A i \in 1..Len(positions) : positions[i].quantity # F(0)

\* C8: a Sell of less than the held quantity, once it has returned, has succeeded
\* and left the position with quantity = old - sold, the same entry_price and
\* realized_pnl = old realized_pnl + (sell price - entry_price) x sold.
C8_PartialSellReduces ==
    \A t \in Tasks :
        (/\ pc[t] = "done" /\ req[t].side = "Sell"
         /\ loc[t].position # None
         /\ RLt(req[t].quantity, Unwrap(loc[t].position).quantity)
         /\ \A o \in Tasks \ {t} : pc[o] = "idle")
        => LET old == Unwrap(loc[t].position)
               now == GetPositionByUserAndSymbol(positions, req[t].user_id, req[t].symbol)
           IN  /\ result[t] = Ok
               /\ now # None
               /\ Unwrap(now).quantity = RSub(old.quantity, req[t].quantity)
               /\ Unwrap(now).entry_price = old.entry_price
               /\ Unwrap(now).realized_pnl =
                      RAdd(old.realized_pnl,
                           RMul(RSub(loc[t].price, old.entry_price), req[t].quantity))

\* C9: every change of a stored cash balance is made by a create_order call of that
\* owner and is exactly -price x quantity for a Buy and +price x quantity for a
\* Sell; get_positions, get_orders and get_user_balance_details change no balance.
C9_BalanceChangesByCost ==
    [][\A u \in Users :
          GetUserBalance(users', u) # GetUserBalance(users, u)
          => \E t \in Tasks :
                /\ pc[t] \in {"buy_update_balance", "sell_update_balance"}
                /\ pc'[t] # pc[t]
                /\ req[t].user_id = u
                /\ GetUserBalance(users', u) =
                      IF req[t].side = "Buy"
                      THEN RSub(GetUserBalance(users, u), RMul(loc[t].price, req[t].quantity))
                      ELSE RAdd(GetUserBalance(users, u), RMul(loc[t].price, req[t].quantity))]_vars

\* C10: a step that returns success from create_order appends exactly one Order
\* document (Market, Filled, the requested owner, symbol, side and quantity, the
\* resolved price); a step that returns an error appends none; no step appends
\* otherwise, and no step changes or removes a stored Order document.
C10_OrdersAppendOnly ==
    [][/\ IsPrefix(orders, orders')
       /\ orders' # orders =>
             \E t \in Tasks : pc[t] = "save_order" /\ pc'[t] = "done" /\ result'[t] = Ok
       /\ \A t \in Tasks :
             (pc[t] # "done" /\ pc'[t] = "done" /\ IsOrderCall(t))
             => IF result'[t] = Ok
                THEN /\ Len(orders') = Len(orders) + 1
                     /\ LET d == orders'[Len(orders')]
                        IN  /\ d.user_id = req[t].user_id
                            /\ d.symbol = req[t].symbol
                            /\ d.order_type = "Market"
                            /\ d.status = "Filled"
                            /\ d.side = req[t].side
                            /\ d.quantity = req[t].quantity
                            /\ d.price = Some(loc[t].price)
                ELSE orders' = orders]_vars

C10_Witness ==
    \E t \in Tasks :
        /\ pc[t] = "done" /\ result[t] = Ok /\ IsOrderCall(t)
        /\ Len(orders) = 1

\* ------------------------------------------------------------ registry properties
Listed(strategy_id, symbol) ==
    /\ IsSome(active_strategies[symbol])
    /\ Contains(Unwrap(active_strategies[symbol]), strategy_id)

PersistedActive(strategy_id, symbol) ==
    LET strategy_opt == GetStrategyById(strategies, strategy_id)
    IN  /\ strategy_opt # None
        /\ Unwrap(strategy_opt).status = "Active"
        /\ Contains(Unwrap(strategy_opt).symbols, symbol)

\* C2: between strategy calls, a strategy id is listed under a symbol, with the
\* symbol subscribed at the hub, exactly when the stored strategy is Active and has
\* the symbol in its symbol list.
C2_SubscribedIffActive ==
    \A strategy_id \in StrategyIds, symbol \in Symbols :
        (Listed(strategy_id, symbol) /\ symbol \in subscriptions)
            <=> PersistedActive(strategy_id, symbol)

\* C11: a create_order call that passed its checks, once it has returned, has
\* succeeded and the Order it appended carries the identifier of the position it
\* affected: the _id of the position stored for the owner and symbol, or, when the
\* call was a Sell of the whole held quantity, the id of the position it deleted.
C11_OrderCarriesPositionId ==
    \A t \in Tasks :
        (/\ pc[t] = "done" /\ IsOrderCall(t)
         /\ wlog[t] # << >>
         /\ \A o \in Tasks \ {t} : pc[o] = "idle")
        => /\ result[t] = Ok
           /\ orders # << >>
           /\ LET d == orders[Len(orders)]
                  held == StoredPositions(req[t].user_id, req[t].symbol)
              IN  /\ IsSome(d.position_id)
                  /\ held # {} => d.position_id = Some(positions[First(held)]["_id"])

StoredStrategy(coll, strategy_id) == GetStrategyById(coll, strategy_id)

\* the number of times symbol occurs in the list of calls
CountOf(list, symbol) == Cardinality({i \in 1..Len(list) : list[i] = symbol})

UsedByOtherActive(strategy_id, symbol) ==
    \E other \in StrategyIds \ {strategy_id} : PersistedActive(other, symbol)

\* C12: a strategy call that takes a stored strategy from Active to Paused or
\* Stopped calls unsubscribe exactly once for each symbol of the strategy that no
\* other stored Active strategy has, and not at all for any other symbol.
C12_UnsubscribeOnDeactivate ==
    [][\A strategy_id \in StrategyIds :
          LET before == StoredStrategy(strategies, strategy_id)
              after == StoredStrategy(strategies', strategy_id)
          IN  (/\ before # None /\ after # None
               /\ Unwrap(before).status = "Active"
               /\ Unwrap(after).status # "Active")
              => \A symbol \in Symbols :
                    CountOf(unsubscribe_calls', symbol) =
                        IF /\ Contains(Unwrap(before).symbols, symbol)
                           /\ ~UsedByOtherActive(strategy_id, symbol)
                        THEN 1 ELSE 0]_vars

\* ------------------------------------------------------------ evaluator properties
Range(list) == {list[i] : i \in 1..Len(list)}

\* C13: when the price listener has processed a tick for a symbol, every strategy
\* that is listed for the symbol and cached was evaluated for that tick, whether or
\* not the evaluation of another listed strategy failed.
C13_TickBatchIsolated ==
    trigger.kind = "tick"
    => \A strategy_id \in StrategyIds :
          (Listed(strategy_id, trigger.symbol) /\ IsSome(strategy_cache[strategy_id]))
          => << strategy_id, trigger.symbol >> \in Range(evaluated)

\* C14: when a timer sweep has run, every symbol of every stored Active strategy
\* was evaluated in it, whether or not another evaluation of the sweep failed.
C14_SweepIsolated ==
    trigger.kind = "timer"
    => \A strategy_id \in StrategyIds, symbol \in Symbols :
          PersistedActive(strategy_id, symbol)
          => << strategy_id, symbol >> \in Range(evaluated)

\* C15: under one market condition (one signal transition), when both the tick
\* trigger and the timer trigger have evaluated a (strategy, symbol), at most one
\* order was placed for it.
C15_TriggersIdempotent ==
    \A pair \in Pairs :
        {"tick", "timer"} \subseteq Range(placed_orders[pair])
        => Len(placed_orders[pair]) <= 1

C18_ListenerSurvivesLag == dropped # << >> => rx.state = "open"

\* ------------------------------------------------------------ signal properties
\* C19: with previous and current the two most recent RSI values, the RSI rule
\* issues a Buy exactly when previous < oversold and current >= oversold, and a Sell
\* exactly when previous > overbought and current <= overbought.
C19_RsiSignalRule ==
    (/\ signal_input.rule = "rsi"
     /\ signal_output # "NotEvaluated"
     /\ Len(signal_input.rsi_values) >= 2)
    => LET values == signal_input.rsi_values
           current == values[Len(values)]
           previous == values[Len(values) - 1]
           oversold == signal_input.oversold_threshold
           overbought == signal_input.overbought_threshold
       IN  /\ signal_output = "Buy" <=> (RLt(previous, oversold) /\ RGe(current, oversold))
           /\ signal_output = "Sell" <=>
                  (RGt(previous, overbought) /\ RLe(current, overbought))

\* C20: with the two most recent values of the fast and the slow average, the
\* MA-crossover rule issues a Buy exactly when previous fast <= previous slow and
\* current fast > current slow, a Sell exactly when previous fast >= previous slow
\* and current fast < current slow, never both, and nothing otherwise (nor when an
\* average has fewer than two values).
C20_MaCrossoverRule ==
    (signal_input.rule = "ma" /\ signal_output # "NotEvaluated")
    => LET fast == CalculateSma(signal_input.price_data, signal_input.fast_period)
           slow == CalculateSma(signal_input.price_data, signal_input.slow_period)
           have == Len(fast) >= 2 /\ Len(slow) >= 2
           buy == /\ have
                  /\ RLe(fast[Len(fast) - 1], slow[Len(slow) - 1])
                  /\ RGt(fast[Len(fast)], slow[Len(slow)])
           sell == /\ have
                   /\ RGe(fast[Len(fast) - 1], slow[Len(slow) - 1])
                   /\ RLt(fast[Len(fast)], slow[Len(slow)])
       IN  /\ signal_output = "Buy" <=> buy
           /\ signal_output = "Sell" <=> sell
           /\ signal_output = "None" <=> (~buy /\ ~sell)
           /\ ~(buy /\ sell)

C20_Witness ==
    /\ signal_input.rule = "ma"
    /\ signal_output = "Buy"
    /\ LET fast == CalculateSma(signal_input.price_data, signal_input.fast_period)
           slow == CalculateSma(signal_input.price_data, signal_input.slow_period)
       IN  fast[Len(fast) - 1] = slow[Len(slow) - 1]


\* ------------------------------------------------------------ evaluation properties
\* the indicator of the evaluated strategy returned, with fewer than two values
FewerThanTwoValues ==
    \/ /\ signal_input.rule = "ma"
       /\ \/ Len(CalculateSma(signal_input.price_data, signal_input.fast_period)) < 2
          \/ Len(CalculateSma(signal_input.price_data, signal_input.slow_period)) < 2
    \/ /\ signal_input.rule = "rsi"
       /\ Len(signal_input.rsi_values) < 2
    \/ /\ signal_input.rule = "macd"
       /\ LET r == CalculateMacd(signal_input.price_data, signal_input.fast_period,
                                signal_input.slow_period, signal_input.signal_period)
          IN  ~r.panic /\ (Len(r.macd_line) < 2 \/ Len(r.signal_line) < 2)

CrossesAboveOnceAt(fast_ma, slow_ma, c) ==
    /\ \A i \in 1..(c - 1) : RLe(fast_ma[i], slow_ma[i])
    /\ \A i \in c..Len(fast_ma) : RGt(fast_ma[i], slow_ma[i])

\* C22: evaluated step by step over a fast series that crosses above the slow series
\* once, the crossover rule issues Buy at the step of the crossing and at no other step.
C22_BuyOnceAtCrossing ==
    \A c \in 2..Len(signal_input.fast_ma) :
        (signal_input.rule = "ma_steps"
         /\ CrossesAboveOnceAt(signal_input.fast_ma, signal_input.slow_ma, c))
        => \A k \in 1..Len(signal_history) : signal_history[k] = "Buy" <=> k = c

\* fast 1, 2, 3, 4 against slow 3, 3, 3, 3 evaluated to the end: Buy at the fourth step
C22_Witness ==
    /\ signal_input.rule = "ma_steps"
    /\ signal_input.fast_ma = << F(1), F(2), F(3), F(4) >>
    /\ signal_input.slow_ma = << F(3), F(3), F(3), F(3) >>
    /\ signal_history = << "None", "None", "None", "Buy" >>


C24_SweepEvaluatesAndStamps ==
    trigger.kind = "timer"
    => \A i \in 1..Len(strategies) :
          strategies[i].status = "Active"
          => /\ \A k \in 1..Len(strategies[i].symbols) :
                   << strategies[i]._id, strategies[i].symbols[k] >> \in Range(evaluated)
             /\ strategies[i].last_executed_at = Some(triggers)


\* ------------------------------------------------------------ ownership properties
\* the database and the registry are as before the call that returned r
LeavesAllUnchanged(r) ==
    /\ r.strategies = strategies
    /\ r.reg.active_strategies = active_strategies
    /\ r.reg.strategy_cache = strategy_cache
    /\ r.reg.subscriptions = subscriptions

\* what the call has to return: NotFoundError for an id no strategy has,
\* AuthorizationError for a strategy of another owner
RequiredError(u, strategy_id) ==
    IF \A i \in 1..Len(strategies) : strategies[i]._id # strategy_id
    THEN NotFoundError
    ELSE IF \E i \in 1..Len(strategies) :
                strategies[i]._id = strategy_id /\ strategies[i].user_id # u
    THEN AuthorizationError
    ELSE Ok

\* C25: update, get and delete of a strategy return AuthorizationError to a caller who
\* is not the owner and NotFoundError when no strategy has the id, and then leave the
\* stored strategies, the symbol index, the cache and the subscriptions unchanged.
C25_RejectedCallsChangeNothing ==
    \A u \in Users, strategy_id \in StrategyIds :
        RequiredError(u, strategy_id) # Ok
        => /\ \A rq \in UpdateRequests :
                 LET r == UpdateStrategyCall(strategies, Registry, u, strategy_id, rq)
                 IN  r.result = RequiredError(u, strategy_id) /\ LeavesAllUnchanged(r)
           /\ GetStrategyCall(strategies, u, strategy_id).result
                 = RequiredError(u, strategy_id)
           /\ LET r == DeleteStrategyCall(strategies, u, strategy_id)
              IN  r.result = RequiredError(u, strategy_id) /\ r.strategies = strategies

\* a call on an Active, subscribed strategy was refused to a user who does not own it
C25_Witness ==
    /\ sresult = AuthorizationError
    /\ subscriptions # {}
    /\ \E i \in 1..Len(strategies) :
          strategies[i].status = "Active" /\ strategies[i].user_id # "u2"


\* ------------------------------------------------------------ indicator properties
\* C26: for a price series shorter than the period, SMA, EMA and RSI are each empty.
C26_ShortSeriesEmpty ==
    (indicator_output.calculated
     /\ Len(indicator_input.prices) < indicator_input.period)
    => /\ indicator_output.sma = << >>
       /\ indicator_output.ema = << >>
       /\ indicator_output.rsi = << >>

\* the indicators were applied to two prices with period 3
C26_Witness ==
    /\ indicator_output.calculated
    /\ Len(indicator_input.prices) = 2
    /\ indicator_input.period = 3

\* the sum of the n values of a series that end at index last
RECURSIVE SumEndingAt(_, _, _)
SumEndingAt(values, last, n) ==
    IF n = 0 THEN F(0) ELSE RAdd(SumEndingAt(values, last - 1, n - 1), values[last])

\* C27: for len(prices) >= period >= 1, SMA has len - period + 1 values and value i
\* (from 0) is the mean of the period prices that end at input index i + period - 1.
C27_SmaWindowMeans ==
    (indicator_output.calculated
     /\ Len(indicator_input.prices) >= indicator_input.period)
    => LET prices == indicator_input.prices
           period == indicator_input.period
           sma == indicator_output.sma
       IN  /\ Len(sma) = Len(prices) - period + 1
           /\ \A i \in 0..(Len(sma) - 1) :
                 RMul(sma[i + 1], F(period)) = SumEndingAt(prices, i + period, period)

\* SMA of period 2 over the four prices 1, 3, 2, 3: three values 2, 5/2, 5/2
C27_Witness ==
    /\ indicator_output.calculated
    /\ indicator_input.prices = << F(1), F(3), F(2), F(3) >>
    /\ indicator_input.period = 2
    /\ indicator_output.sma = << F(2), [n |-> 5, d |-> 2], [n |-> 5, d |-> 2] >>

\* C28: the MACD line has the length of EMA(slow) and each value is EMA(fast) minus
\* EMA(slow) at the same input price index; the signal line is the EMA of the MACD
\* line; the histogram has the length of the signal line and each value is the MACD
\* line minus the signal line at the aligned position; all three are empty when
\* either EMA is empty.
C28_MacdLines ==
    indicator_output.calculated
    => LET prices == indicator_input.prices
           fast_period == indicator_input.fast_period
           slow_period == indicator_input.slow_period
           fast_ema == CalculateEma(prices, fast_period)
           slow_ema == CalculateEma(prices, slow_period)
           macd == indicator_output.macd
       IN  /\ ~macd.panic
           /\ (fast_ema = << >> \/ slow_ema = << >>)
                 => /\ macd.macd_line = << >>
                    /\ macd.signal_line = << >>
                    /\ macd.histogram = << >>
           /\ (fast_ema # << >> /\ slow_ema # << >>)
                 => /\ Len(macd.macd_line) = Len(slow_ema)
                    \* value i of an EMA of period p belongs to price index i + p - 1
                    /\ \A i \in 1..Len(slow_ema) :
                          LET j == i + slow_period - fast_period
                          IN  /\ j \in 1..Len(fast_ema)
                              /\ macd.macd_line[i] = RSub(fast_ema[j], slow_ema[i])
                    /\ macd.signal_line
                          = CalculateEma(macd.macd_line, indicator_input.signal_period)
                    /\ Len(macd.histogram) = Len(macd.signal_line)
                    /\ \A i \in 1..Len(macd.signal_line) :
                          macd.histogram[i]
                            = RSub(macd.macd_line[i + Len(macd.macd_line)
                                                    - Len(macd.signal_line)],
                                   macd.signal_line[i])


\* ------------------------------------------------------------ get_positions properties
\* task t takes a step of a get_positions call
GetPositionsActs(t) ==
    \/ pc[t] = "idle" /\ pc'[t] = "get_positions_loop"
    \/ pc[t] = "get_positions_loop" /\ (pc'[t] # pc[t] \/ loc'[t] # loc[t])

C30_IndexAndCacheAgree ==
    /\ \A strategy_id \in StrategyIds, symbol \in Symbols :
          Listed(strategy_id, symbol) => IsSome(strategy_cache[strategy_id])
    /\ \A strategy_id \in StrategyIds :
          IsSome(strategy_cache[strategy_id])
          => \A k \in 1..Len(Unwrap(strategy_cache[strategy_id]).symbols) :
                Listed(strategy_id, Unwrap(strategy_cache[strategy_id]).symbols[k])


\* ------------------------------------------------------------ registry updates
ListedIn(reg, strategy_id, symbol) ==
    /\ IsSome(reg.active_strategies[symbol])
    /\ Contains(Unwrap(reg.active_strategies[symbol]), strategy_id)

\* the owner's update calls on a stored strategy: << owner, id, request >>
OwnerCalls ==
    {c \in Users \X StrategyIds \X UpdateRequests :
        /\ GetStrategyById(strategies, c[2]) # None
        /\ Unwrap(GetStrategyById(strategies, c[2])).user_id = c[1]}

C32_InactiveUpdateFrame ==
    \A c \in OwnerCalls :
        LET strategy_id == c[2]
            rq == c[3]
            stored == Unwrap(GetStrategyById(strategies, strategy_id))
        IN  (stored.status # "Active" /\ ApplyUpdate(stored, rq).status # "Active")
            => LET r == UpdateStrategyCall(strategies, Registry, c[1], strategy_id, rq)
               IN  /\ r.result = Ok
                   /\ r.reg.active_strategies = active_strategies
                   /\ r.reg.strategy_cache = strategy_cache
                   /\ r.reg.subscriptions = subscriptions
                   /\ r.reg.unsubscribe_calls = << >>

\* strategy 1, never listed, is stored Stopped with a new symbol list while strategy
\* 2 is Active, listed, cached and subscribed on BTC-USDT
C32_Witness ==
    /\ sresult = Ok
    /\ unsubscribe_calls = << >>
    /\ Len(strategies) = 2
    /\ strategies[1].status = "Stopped"
    /\ strategies[1].symbols = << "BTC-USDT", "ETH-USDT" >>
    /\ strategies[2].status = "Active"
    /\ active_strategies["BTC-USDT"] = Some(<< 2 >>)
    /\ active_strategies["ETH-USDT"] = None
    /\ strategy_cache[1] = None /\ IsSome(strategy_cache[2])
    /\ subscriptions = {"BTC-USDT"}


\* C36: between strategy calls, the cached copy of a stored Active strategy, which
\* is the copy tick-driven evaluation uses, has the parameters persisted by the last
\* update_strategy, whichever fields that update changed.
C36_CacheHasPersistedParameters ==
    \A strategy_id \in StrategyIds :
        LET strategy_opt == GetStrategyById(strategies, strategy_id)
        IN  (/\ strategy_opt # None
             /\ Unwrap(strategy_opt).status = "Active"
             /\ sresult = Ok)
            => /\ IsSome(strategy_cache[strategy_id])
               /\ Unwrap(strategy_cache[strategy_id]).parameters
                     = Unwrap(strategy_opt).parameters


\* ------------------------------------------------------------ evaluations in progress
\* a step of the evaluation call in progress
EvaluationActs == inflight.pc # "idle" /\ inflight' # inflight

\* a step that takes a stored strategy from Active to Paused or Stopped
Deactivates ==
    \E i \in 1..Len(strategies) :
        /\ strategies[i].status = "Active"
        /\ i <= Len(strategies')
        /\ strategies'[i].status # "Active"

WriteBackActs == inflight.pc = "write_back" /\ inflight'.pc # "write_back"

\* C35: the write-back made after an evaluation changes last_executed_at and no other
\* field of any stored strategy, whatever update_strategy persisted while the
\* evaluation was in progress.
C35_WriteBackOnlyStamps ==
    [][WriteBackActs
       => /\ Len(strategies') = Len(strategies)
          /\ \A i \in 1..Len(strategies) :
                [strategies'[i] EXCEPT !.last_executed_at = strategies[i].last_executed_at]
                   = strategies[i]]_vars


\* no stored strategy has the id: it was deleted
Deleted(strategy_id) == GetStrategyById(strategies, strategy_id) = None

\* the cache lookup of a tick evaluation hands a strategy to the evaluation
LookupFinds == inflight.pc = "lookup" /\ inflight'.pc = "evaluate"

\* C37: once delete_strategy has deleted a stored strategy, its id is listed under no
\* symbol and is not in the cache, every subscribed symbol has a listed id, and no
\* tick evaluation takes the strategy from the cache to evaluate it.
C37_DeletedIsGone ==
    /\ [](\A strategy_id \in 1..Len(InflightCollection) :
             Deleted(strategy_id)
             => /\ \A s \in Symbols : ~Listed(strategy_id, s)
                /\ strategy_cache[strategy_id] = None
                /\ \A s \in subscriptions :
                      \E other \in StrategyIds \ {strategy_id} : Listed(other, s))
    /\ [][LookupFinds => ~Deleted(Head(inflight.ids))]_vars


\* ------------------------------------------------------------ one engine per process
\* a tick listener ran process_price_update
TickActs == triggers' = triggers + 1 /\ trigger'.kind = "tick"

\* C38: once update_strategy has taken a strategy out of Active, no tick listener of
\* the process evaluates it: every strategy a tick evaluates is stored Active when the
\* tick arrives; and a tick evaluates no strategy twice.
C38_OneEngine ==
    [][TickActs
       => /\ \A i \in 1..Len(evaluated') :
                \E strategy_opt \in {GetStrategyById(strategies, evaluated'[i][1])} :
                    /\ strategy_opt # None
                    /\ Unwrap(strategy_opt).status = "Active"
          /\ \A i, j \in 1..Len(evaluated') : evaluated'[i] = evaluated'[j] => i = j]_vars


\* ------------------------------------------------------------ locks
\* the call of t can take its next step
CanStep(t) ==
    /\ programs[t] # << >>
    /\ Head(programs[t]).op = "acquire" /\ Queued(t, Head(programs[t]).lock)
       => Grantable(t, Head(programs[t]).lock)

\* C34: whenever calls are under way one of them can take a step, so no deadlock is
\* reachable; the price listener holds none of the three locks while it evaluates;
\* and every call that has begun ends.
C34_NoOperationBlocks ==
    /\ []((\E t \in LockTasks : programs[t] # << >>)
          => \E t \in LockTasks : CanStep(t))
    /\ []((programs["listener"] # << >> /\ Head(programs["listener"]).op = "await")
          => \A lock \in Locks : ~Holds("listener", lock))
    /\ \A t \in LockTasks : (programs[t] # << >>) ~> (programs[t] = << >>)

\* a request handler holds the write guard on the symbol index and waits for the
\* subscriptions while the market data stream holds its read guard on them and
\* the listener waits for the symbol index
C34_Witness ==
    /\ Holds("handler1", "active_strategies")
    /\ Queued("handler1", "subscriptions")
    /\ Holds("stream", "subscriptions")
    /\ Queued("listener", "active_strategies")
    /\ Queued("handler2", "active_strategies")


\* ------------------------------------------------------------ holdings
\* the Sell calls on (u, s) under way or returned whose proceeds were credited
CreditedSells(u, s) ==
    {t \in Tasks : /\ req[t].side = "Sell" /\ req[t].user_id = u /\ req[t].symbol = s
                   /\ \E i \in 1..Len(wlog[t]) : wlog[t][i] = "balance"}

RECURSIVE SumRequested(_)
SumRequested(tasks) ==
    IF tasks = {} THEN F(0)
    ELSE LET t == CHOOSE x \in tasks : TRUE
         IN  RAdd(req[t].quantity, SumRequested(tasks \ {t}))

\* C39: for every owner and symbol, the quantity sold - by the stored Sell orders and
\* by the Sell calls whose proceeds were credited to the balance - is at most the
\* quantity bought by the stored Buy orders.
C39_NoDoubleSell ==
    \A u \in Users, s \in Symbols :
        /\ RLe(SumQuantity(FilledOrders(u, s, "Sell")),
               SumQuantity(FilledOrders(u, s, "Buy")))
        /\ RLe(SumRequested(CreditedSells(u, s)),
               SumQuantity(FilledOrders(u, s, "Buy")))

\* C40: the position found for an owner and a symbol carries the identifier the
\* stored record was created under, and no create_order call fails for want of that
\* identifier after it has changed the balance.
C40_ReadBackCarriesId ==
    /\ \A u \in Users, s \in Symbols :
          \E position_opt \in {GetPositionByUserAndSymbol(positions, u, s)} :
              position_opt # None
              => Unwrap(position_opt).id
                    = Some(positions[First(StoredPositions(u, s))]["_id"])
    /\ \A t \in Tasks : result[t] \notin {PositionIdRequired, PositionIdNotFound}

====
